---- MODULE Spec2Model ----
(***************************************************************************)
(* The Livestatus query builder (ParsedQuery.cc) and the service-groups    *)
(* table (TableServiceGroups.cc) as a state machine.                       *)
(*                                                                         *)
(* A request is a list of header lines.  The constructor of ParsedQuery    *)
(* walks the list, dispatches every line on its header, catches the        *)
(* runtime_error of a failing line and finally builds the two filter roots.*)
(* One step of the model is the dispatch of one line (one iteration of the *)
(* for loop) or the code after the loop.                                   *)
(*                                                                         *)
(* A line is modelled after the split at the first ':' and after the       *)
(* strip of leading whitespace: [header, args], args being the sequence    *)
(* of the maximal non-whitespace runs of the rest of the line.             *)
(***************************************************************************)
EXTENDS Integers, Sequences, FiniteSets, TLC

\* Longest request of the filter-stack specification.
MaxLines == 4
\* Longest request of the error-capture specification.
MaxErrLines == 3
\* Longest request of the stats specification.
MaxStatsLines == 4
\* Longest request of the columns specification.
MaxColumnsLines == 3
\* Longest request of the specification over all headers.
MaxAllLines == 2
\* Longest request of the Localtime specification.
MaxLocaltimeLines == 3
\* Longest request of the response-header specification.
MaxHeaderLines == 3
\* Longest request of the specification of the identity elements.
MaxIdentityLines == 3
\* Longest request of the negation specification.
MaxNegateLines == 4
\* Longest request of the answerer specification.
MaxAnswerLines == 2
\* Most service groups of the monitoring core in the answerer specification.
MaxGroups == 3
\* Longest request of the specification of the setting lines.
MaxSettingLines == 2
\* Longest request of the wait specification.
MaxWaitLines == 3

VARIABLES
    lines,               \* the request: const std::list<std::string> &lines
    pos,                 \* number of lines the for loop has dispatched
    pc,                  \* "lines": in the loop; "done": constructor returned
    filters,             \* FilterStack filters (bottom first)
    wait_conditions,     \* FilterStack wait_conditions (bottom first)
    stats_columns,       \* ParsedQuery::stats_columns
    columns,             \* ParsedQuery::columns
    all_column_names,    \* ParsedQuery::all_column_names
    show_column_headers,
    keepalive,
    limit,
    time_limit,
    user,
    separators,
    output_format,
    response_header,
    wait_timeout,
    wait_trigger,
    wait_object,
    timezone_offset,
    filter,              \* ParsedQuery::filter, the row-filter root
    wait_condition,      \* ParsedQuery::wait_condition, the wait root
    output,              \* the calls made on the OutputBuffer, in order
    servicegroup_list,   \* the service groups of the monitoring core, in its order
    sg,                  \* answerQuery: the loop pointer, an index into the list
    calls,               \* the calls of Query::processDataset, in order
    records              \* the output records emitted, in order

stacks == <<filters, wait_conditions, stats_columns>>
settings == <<keepalive, limit, time_limit, user, separators, output_format,
              response_header, wait_timeout, wait_trigger, wait_object,
              timezone_offset>>
outcols == <<columns, all_column_names, show_column_headers>>
roots == <<filter, wait_condition>>
answerer == <<sg, calls, records>>
vars == <<lines, pos, pc, stacks, outcols, settings, roots, output,
          servicegroup_list, answerer>>

----------------------------------------------------------------------------
(* Sequences *)

Last(s) == s[Len(s)]

Front(s) == SubSeq(s, 1, Len(s) - 1)

\* std::reverse
Reverse(s) == [i \in 1..Len(s) |-> s[Len(s) + 1 - i]]

Range(s) == {s[i] : i \in 1..Len(s)}

SeqsUpTo(S, n) == UNION {[1..k -> S] : k \in 0..n}

----------------------------------------------------------------------------
(* Exceptions: what() of a std::runtime_error.  stack_underflow carries   *)
(* the two numbers of its message.                                         *)

NoError == [msg |-> "", expected |-> 0, actual |-> 0]

runtime_error(msg) == [msg |-> msg, expected |-> 0, actual |-> 0]

\* "cannot combine filters: expecting <expected> filter(s), but only
\* <actual> is/are on stack"
stack_underflow(expected, actual) ==
    [msg |-> "cannot combine filters", expected |-> expected, actual |-> actual]

----------------------------------------------------------------------------
(* Lexical helpers *)

nextStringArgument(str) ==
    IF str = <<>>
    THEN [error |-> runtime_error("missing argument"), argument |-> "", rest |-> str]
    ELSE [error |-> NoError, argument |-> Head(str), rest |-> Tail(str)]

\* The integers whose decimal form occurs in the modelled requests.
DecimalLiterals ==
    {-1, 0, 1, 2, 3, 4, 5, 10, 44, 59, 124, 300, 900, 4501, 89100, 90000, 90900,
     91800, 92700, 175500, 176400}

\* Tokens that start with a number and go on with something else.
PartialLiterals == ("2x" :> 2) @@ ("1.5" :> 1)

\* Decimal numbers that do not fit an int.
OutOfRangeLiterals == {"99999999999"}

\* std::from_chars(first, last, int &): ec, whether ptr == last, the value
from_chars(argument) ==
    IF \E i \in DecimalLiterals : ToString(i) = argument
    THEN [ec |-> "", complete |-> TRUE,
          value |-> CHOOSE i \in DecimalLiterals : ToString(i) = argument]
    ELSE IF argument \in DOMAIN PartialLiterals
    THEN [ec |-> "", complete |-> FALSE, value |-> PartialLiterals[argument]]
    ELSE IF argument \in OutOfRangeLiterals
    THEN [ec |-> "result_out_of_range", complete |-> TRUE, value |-> 0]
    ELSE [ec |-> "invalid_argument", complete |-> FALSE, value |-> 0]

nextNonNegativeIntegerArgument(str) ==
    LET a == nextStringArgument(str)
        r == from_chars(a.argument)
    IN  IF a.error # NoError
        THEN [error |-> a.error, value |-> 0, rest |-> a.rest]
        ELSE IF r.ec # "" \/ ~r.complete \/ r.value < 0
        THEN [error |-> runtime_error("expected non-negative integer"),
              value |-> 0, rest |-> a.rest]
        ELSE [error |-> NoError, value |-> r.value, rest |-> a.rest]

checkNoArguments(str) ==
    IF str # <<>> THEN runtime_error("superfluous argument(s)") ELSE NoError

----------------------------------------------------------------------------
(* The filter tree: leaf (column filter), And, Or.  NoFilter is the null   *)
(* unique_ptr the two roots hold until the constructor assigns them.       *)

Kinds == {"row", "stats", "wait_condition"}

NoFilter == [node |-> "null", kind |-> "", column |-> "", op |-> "",
             rhs |-> <<>>, subs |-> <<>>]

ColumnFilter(kind, column, op, rhs) ==
    [node |-> "leaf", kind |-> kind, column |-> column, op |-> op,
     rhs |-> rhs, subs |-> <<>>]

FilterNode(node, kind, subs) ==
    [node |-> node, kind |-> kind, column |-> "", op |-> "",
     rhs |-> <<>>, subs |-> subs]

\* AndingFilter::make: no subfilter gives the node without children (true),
\* one subfilter gives that subfilter, otherwise an And node of the kind.
AndingFilter_make(kind, subfilters) ==
    IF Len(subfilters) = 1 THEN subfilters[1]
    ELSE FilterNode("and", kind, subfilters)

\* OringFilter::make: no subfilter gives the node without children (false),
\* one subfilter gives that subfilter, otherwise an Or node of the kind.
OringFilter_make(kind, subfilters) ==
    IF Len(subfilters) = 1 THEN subfilters[1]
    ELSE FilterNode("or", kind, subfilters)

\* A LogicalConnective is AndingFilter::make ("and") or OringFilter::make ("or").
LogicalConnective(connective, kind, subfilters) ==
    IF connective = "and" THEN AndingFilter_make(kind, subfilters)
    ELSE OringFilter_make(kind, subfilters)

\* The relational operators and, for each, its canonical negation.
negateRelationalOperator ==
    ("=" :> "!=") @@ ("!=" :> "=") @@ ("~" :> "!~") @@ ("!~" :> "~") @@
    ("=~" :> "!=~") @@ ("!=~" :> "=~") @@ ("~~" :> "!~~") @@ ("!~~" :> "~~") @@
    ("<" :> ">=") @@ (">=" :> "<") @@ (">" :> "<=") @@ ("<=" :> ">")

relationalOperatorForName(name) ==
    IF name \in DOMAIN negateRelationalOperator
    THEN [error |-> NoError, op |-> name]
    ELSE [error |-> runtime_error("invalid operator"), op |-> ""]

\* Filter::negate: De Morgan at And / Or, the complement operator at a leaf.
RECURSIVE negate(_)
negate(f) ==
    IF f.node = "leaf" THEN [f EXCEPT !.op = negateRelationalOperator[f.op]]
    ELSE IF f.node = "and"
    THEN OringFilter_make(f.kind, [i \in 1..Len(f.subs) |-> negate(f.subs[i])])
    ELSE AndingFilter_make(f.kind, [i \in 1..Len(f.subs) |-> negate(f.subs[i])])

----------------------------------------------------------------------------
(* The service-groups table *)

\* TableServiceGroups::addColumns: the columns in the order of registration.
TableColumns ==
    << "name", "alias", "notes", "notes_url", "action_url", "members",
       "members_with_state", "worst_service_state", "num_services",
       "num_services_ok", "num_services_warn", "num_services_crit",
       "num_services_unknown", "num_services_pending",
       "num_services_handled_problems", "num_services_unhandled_problems",
       "num_services_hard_ok", "num_services_hard_warn",
       "num_services_hard_crit", "num_services_hard_unknown" >>

Column(name) == [name |-> name, is_null |-> FALSE]

\* NullColumn(name, "non-existing column", ColumnOffsets{})
NullColumn(name) == [name |-> name, is_null |-> TRUE]

\* Table::column (make_column): the registered column of that name, or a
\* runtime_error when the table has none.
make_column(colname) ==
    IF colname \in Range(TableColumns)
    THEN [error |-> NoError, column |-> Column(colname)]
    ELSE [error |-> runtime_error("table has no column"), column |-> NullColumn(colname)]

\* Table::any_column with a predicate that is always false: every column.
any_column == [i \in 1..Len(TableColumns) |-> Column(TableColumns[i])]

\* Column::createFilter of a registered column.
createFilter(column, kind, op, rhs) == ColumnFilter(kind, column.name, op, rhs)

\* The string-valued and the integer-valued columns of the table.
StringColumns == {"name", "alias", "notes", "notes_url", "action_url"}

IntColumns == {TableColumns[i] : i \in 8..Len(TableColumns)}

\* Service groups as the filters see them: the value of every string and
\* integer column.
Rows ==
    { [c \in StringColumns \cup IntColumns |->
          IF c = "name" THEN n ELSE IF c = "alias" THEN a
          ELSE IF c \in StringColumns THEN ""
          ELSE IF c = "num_services" THEN k ELSE 0] :
      n \in {"foo", "web"}, a \in {"bar", "foobar", "db"}, k \in {0, 2} }

\* <<text, pattern>>: the pattern is found in the text.
Found == { <<"foo", "foo">>, <<"bar", "bar">>, <<"foobar", "foo">>,
           <<"foobar", "bar">>, <<"web", "web">>, <<"db", "db">> }

\* The words of the rows in lexicographic order.
Words == <<"", "bar", "db", "foo", "foobar", "web">>

\* <<a, b>>: a sorts strictly before b.
Before ==
    { <<Words[p[1]], Words[p[2]]>> :
      p \in {q \in (1..Len(Words)) \X (1..Len(Words)) : q[1] < q[2]} }

\* What a column filter accepts: the positive operators are decided on the
\* value, a negated operator accepts what its complement rejects.  The words
\* of the rows are lower case, so the case-insensitive operators decide as
\* the exact ones.  The right-hand side is its first word.
acceptsLeaf(f, row) ==
    LET value == row[f.column]
        word == IF f.rhs = <<>> THEN "" ELSE f.rhs[1]
        positive(op) ==
            IF f.column \in StringColumns
            THEN CASE op \in {"=", "=~"} -> value = word
                   [] op \in {"~", "~~"} -> word = "" \/ <<value, word>> \in Found
                   [] op = "<" -> <<value, word>> \in Before
                   [] op = ">" -> <<word, value>> \in Before
            ELSE CASE op \in {"=", "=~", "~", "~~"} -> value = from_chars(word).value
                   [] op = "<" -> value < from_chars(word).value
                   [] op = ">" -> value > from_chars(word).value
    IN  IF f.op \in {"=", "=~", "~", "~~", "<", ">"} THEN positive(f.op)
        ELSE ~positive(negateRelationalOperator[f.op])

\* Filter::accepts
RECURSIVE accepts(_, _)
accepts(f, row) ==
    IF f.node = "and" THEN \A i \in 1..Len(f.subs) : accepts(f.subs[i], row)
    ELSE IF f.node = "or" THEN \E i \in 1..Len(f.subs) : accepts(f.subs[i], row)
    ELSE acceptsLeaf(f, row)

----------------------------------------------------------------------------
(* The line parsers of the filter stacks.  Each gives the stack as the     *)
(* code leaves it, also when it throws: error is what() of the exception,  *)
(* NoError when the parser returns.                                        *)

\* The for loop of parseAndOrLine: pop `number` filters into subfilters,
\* stack_underflow(number, i) when the stack runs empty at iteration i.
RECURSIVE popFilters(_, _, _, _)
popFilters(number, i, stack, subfilters) ==
    IF i >= number
    THEN [error |-> NoError, filters |-> stack, subfilters |-> subfilters]
    ELSE IF stack = <<>>
    THEN [error |-> stack_underflow(number, i), filters |-> stack,
          subfilters |-> subfilters]
    ELSE popFilters(number, i + 1, Front(stack), Append(subfilters, Last(stack)))

\* Mutant: the children are handed to the connective as popped, top first.
parseAndOrLine_noReverse(line, kind, connective, stack) ==
    LET number == nextNonNegativeIntegerArgument(line)
        popped == popFilters(number.value, 0, stack, <<>>)
    IN  IF number.error # NoError
        THEN [error |-> number.error, filters |-> stack]
        ELSE IF popped.error # NoError
        THEN [error |-> popped.error, filters |-> popped.filters]
        ELSE [error |-> NoError,
              filters |-> Append(popped.filters,
                                 LogicalConnective(connective, kind,
                                                   popped.subfilters))]

\* Mutant: the loop runs once more than asked (i <= number).
parseAndOrLine_popsOneMore(line, kind, connective, stack) ==
    LET number == nextNonNegativeIntegerArgument(line)
        popped == popFilters(number.value + 1, 0, stack, <<>>)
    IN  IF number.error # NoError
        THEN [error |-> number.error, filters |-> stack]
        ELSE IF popped.error # NoError
        THEN [error |-> popped.error, filters |-> popped.filters]
        ELSE [error |-> NoError,
              filters |-> Append(popped.filters,
                                 LogicalConnective(connective, kind,
                                                   Reverse(popped.subfilters)))]

\* Mutant: the underflow reports the size of the stack after the pops.
parseAndOrLine_reportsRest(line, kind, connective, stack) ==
    LET number == nextNonNegativeIntegerArgument(line)
        popped == popFilters(number.value, 0, stack, <<>>)
    IN  IF number.error # NoError
        THEN [error |-> number.error, filters |-> stack]
        ELSE IF popped.error # NoError
        THEN [error |-> stack_underflow(number.value, Len(popped.filters)),
              filters |-> popped.filters]
        ELSE [error |-> NoError,
              filters |-> Append(popped.filters,
                                 LogicalConnective(connective, kind,
                                                   Reverse(popped.subfilters)))]

\* Mutant: with nothing to combine, nothing is pushed.
parseAndOrLine_skipsEmpty(line, kind, connective, stack) ==
    LET number == nextNonNegativeIntegerArgument(line)
        popped == popFilters(number.value, 0, stack, <<>>)
    IN  IF number.error # NoError
        THEN [error |-> number.error, filters |-> stack]
        ELSE IF popped.error # NoError
        THEN [error |-> popped.error, filters |-> popped.filters]
        ELSE IF number.value = 0
        THEN [error |-> NoError, filters |-> stack]
        ELSE [error |-> NoError,
              filters |-> Append(popped.filters,
                                 LogicalConnective(connective, kind,
                                                   Reverse(popped.subfilters)))]

\* Mutant: on underflow the popped filters are put back.
parseAndOrLine_restoresOnUnderflow(line, kind, connective, stack) ==
    LET number == nextNonNegativeIntegerArgument(line)
        popped == popFilters(number.value, 0, stack, <<>>)
    IN  IF number.error # NoError
        THEN [error |-> number.error, filters |-> stack]
        ELSE IF popped.error # NoError
        THEN [error |-> popped.error, filters |-> stack]
        ELSE [error |-> NoError,
              filters |-> Append(popped.filters,
                                 LogicalConnective(connective, kind,
                                                   Reverse(popped.subfilters)))]

parseAndOrLine(line, kind, connective, stack) ==
    LET number == nextNonNegativeIntegerArgument(line)
        popped == popFilters(number.value, 0, stack, <<>>)
    IN  IF number.error # NoError
        THEN [error |-> number.error, filters |-> stack]
        ELSE IF popped.error # NoError
        THEN [error |-> popped.error, filters |-> popped.filters]
        ELSE [error |-> NoError,
              filters |-> Append(popped.filters,
                                 LogicalConnective(connective, kind,
                                                   Reverse(popped.subfilters)))]

\* Mutant: the pop_back is forgotten, the negation lands on top of the filter.
parseNegateLine_keepsTop(line, stack) ==
    IF checkNoArguments(line) # NoError
    THEN [error |-> checkNoArguments(line), filters |-> stack]
    ELSE IF stack = <<>>
    THEN [error |-> stack_underflow(1, 0), filters |-> stack]
    ELSE [error |-> NoError, filters |-> Append(stack, negate(Last(stack)))]

\* Mutant: the arguments are checked after the top has been popped.
parseNegateLine_checksLate(line, stack) ==
    IF stack = <<>>
    THEN [error |-> stack_underflow(1, 0), filters |-> stack]
    ELSE IF checkNoArguments(line) # NoError
    THEN [error |-> checkNoArguments(line), filters |-> Front(stack)]
    ELSE [error |-> NoError, filters |-> Append(Front(stack), negate(Last(stack)))]

parseNegateLine(line, stack) ==
    IF checkNoArguments(line) # NoError
    THEN [error |-> checkNoArguments(line), filters |-> stack]
    ELSE IF stack = <<>>
    THEN [error |-> stack_underflow(1, 0), filters |-> stack]
    ELSE [error |-> NoError, filters |-> Append(Front(stack), negate(Last(stack)))]

\* The filter is created with Filter::Kind::row whichever stack it goes to.
parseFilterLine(line, stack, names) ==
    LET column_name == nextStringArgument(line)
        op_name == nextStringArgument(column_name.rest)
        rel_op == relationalOperatorForName(op_name.argument)
        column == make_column(column_name.argument)
        failed(e) == [error |-> e, filters |-> stack, all_column_names |-> names]
    IN  IF column_name.error # NoError THEN failed(column_name.error)
        ELSE IF op_name.error # NoError THEN failed(op_name.error)
        ELSE IF rel_op.error # NoError THEN failed(rel_op.error)
        ELSE IF column.error # NoError THEN failed(column.error)
        ELSE [error |-> NoError,
              filters |-> Append(stack, createFilter(column.column, "row",
                                                     rel_op.op, op_name.rest)),
              all_column_names |-> names \cup {column_name.argument}]

----------------------------------------------------------------------------
(* Stats columns: Count owns a filter, Op an aggregation factory and a     *)
(* column.                                                                 *)

StatsColumnCount(f) ==
    [type |-> "count", filter |-> f, factory |-> "", column |-> ""]

StatsColumnOp(factory, column) ==
    [type |-> "op", filter |-> NoFilter, factory |-> factory, column |-> column.name]

\* The names of the map stats_ops.
stats_ops == {"sum", "min", "max", "avg", "std", "suminv", "avginv"}

\* StatsColumn::stealFilter: the filter of a Count, a runtime_error for an Op.
stealFilter(sc) ==
    IF sc.type = "count" THEN [error |-> NoError, filter |-> sc.filter]
    ELSE [error |-> runtime_error("not a counting aggregator"), filter |-> NoFilter]

\* The for loop of parseStatsAndOrLine: when stealFilter throws, the column
\* it was asked of is still on the stack, the ones above it are gone.
RECURSIVE popStatsColumns(_, _, _, _)
popStatsColumns(number, i, stack, subfilters) ==
    IF i >= number
    THEN [error |-> NoError, stats_columns |-> stack, subfilters |-> subfilters]
    ELSE IF stack = <<>>
    THEN [error |-> stack_underflow(number, i), stats_columns |-> stack,
          subfilters |-> subfilters]
    ELSE IF stealFilter(Last(stack)).error # NoError
    THEN [error |-> stealFilter(Last(stack)).error, stats_columns |-> stack,
          subfilters |-> subfilters]
    ELSE popStatsColumns(number, i + 1, Front(stack),
                         Append(subfilters, stealFilter(Last(stack)).filter))

\* Mutant: the combined filters are pushed as they were popped, top first.
parseStatsAndOrLine_noReverse(line, connective, stack) ==
    LET number == nextNonNegativeIntegerArgument(line)
        popped == popStatsColumns(number.value, 0, stack, <<>>)
    IN  IF number.error # NoError
        THEN [error |-> number.error, stats_columns |-> stack]
        ELSE IF popped.error # NoError
        THEN [error |-> popped.error, stats_columns |-> popped.stats_columns]
        ELSE [error |-> NoError,
              stats_columns |->
                  Append(popped.stats_columns,
                         StatsColumnCount(
                             LogicalConnective(connective, "stats",
                                               popped.subfilters)))]

parseStatsAndOrLine(line, connective, stack) ==
    LET number == nextNonNegativeIntegerArgument(line)
        popped == popStatsColumns(number.value, 0, stack, <<>>)
    IN  IF number.error # NoError
        THEN [error |-> number.error, stats_columns |-> stack]
        ELSE IF popped.error # NoError
        THEN [error |-> popped.error, stats_columns |-> popped.stats_columns]
        ELSE [error |-> NoError,
              stats_columns |->
                  Append(popped.stats_columns,
                         StatsColumnCount(
                             LogicalConnective(connective, "stats",
                                               Reverse(popped.subfilters))))]

parseStatsNegateLine(line, stack) ==
    IF checkNoArguments(line) # NoError
    THEN [error |-> checkNoArguments(line), stats_columns |-> stack]
    ELSE IF stack = <<>>
    THEN [error |-> stack_underflow(1, 0), stats_columns |-> stack]
    ELSE IF stealFilter(Last(stack)).error # NoError
    THEN [error |-> stealFilter(Last(stack)).error, stats_columns |-> stack]
    ELSE [error |-> NoError,
          stats_columns |->
              Append(Front(stack),
                     StatsColumnCount(negate(stealFilter(Last(stack)).filter)))]

\* Mutant: only the first Stats: line of a request switches the headers off.
parseStatsLine_firstOnly(line, stack, names, show) ==
    LET col_or_op == nextStringArgument(line)
        second == nextStringArgument(col_or_op.rest)
        rel_op == relationalOperatorForName(second.argument)
        is_op == col_or_op.argument \in stats_ops
        column_name == IF is_op THEN second.argument ELSE col_or_op.argument
        column == make_column(column_name)
        failed(e) == [error |-> e, stats_columns |-> stack,
                      all_column_names |-> names, show_column_headers |-> show]
    IN  IF col_or_op.error # NoError THEN failed(col_or_op.error)
        ELSE IF second.error # NoError THEN failed(second.error)
        ELSE IF ~is_op /\ rel_op.error # NoError THEN failed(rel_op.error)
        ELSE IF column.error # NoError THEN failed(column.error)
        ELSE [error |-> NoError,
              stats_columns |->
                  Append(stack,
                         IF is_op
                         THEN StatsColumnOp(col_or_op.argument, column.column)
                         ELSE StatsColumnCount(
                                  createFilter(column.column, "stats",
                                               rel_op.op, second.rest))),
              all_column_names |-> names \cup {column_name},
              show_column_headers |-> IF stack = <<>> THEN FALSE ELSE show]

\* The first token is an aggregation operator or a column name.
parseStatsLine(line, stack, names, show) ==
    LET col_or_op == nextStringArgument(line)
        second == nextStringArgument(col_or_op.rest)
        rel_op == relationalOperatorForName(second.argument)
        is_op == col_or_op.argument \in stats_ops
        column_name == IF is_op THEN second.argument ELSE col_or_op.argument
        column == make_column(column_name)
        failed(e) == [error |-> e, stats_columns |-> stack,
                      all_column_names |-> names, show_column_headers |-> show]
    IN  IF col_or_op.error # NoError THEN failed(col_or_op.error)
        ELSE IF second.error # NoError THEN failed(second.error)
        ELSE IF ~is_op /\ rel_op.error # NoError THEN failed(rel_op.error)
        ELSE IF column.error # NoError THEN failed(column.error)
        ELSE [error |-> NoError,
              stats_columns |->
                  Append(stack,
                         IF is_op
                         THEN StatsColumnOp(col_or_op.argument, column.column)
                         ELSE StatsColumnCount(
                                  createFilter(column.column, "stats",
                                               rel_op.op, second.rest))),
              all_column_names |-> names \cup {column_name},
              show_column_headers |-> FALSE]

----------------------------------------------------------------------------
(* Output columns and the settings *)

\* The column a Columns: line puts for one name: the table's column, or a
\* NullColumn when make_column throws.
columnOrNull(column_name) ==
    IF make_column(column_name).error = NoError
    THEN make_column(column_name).column
    ELSE NullColumn(column_name)

\* Mutant: the line replaces the output columns.
parseColumnsLine_replaces(line, cols, names) ==
    [error |-> NoError,
     columns |-> [i \in 1..Len(line) |-> columnOrNull(line[i])],
     all_column_names |-> names \cup Range(line),
     show_column_headers |-> FALSE]

\* Mutant: an unknown name fails the line as it does on a Filter: line.
parseColumnsLine_strict(line, cols, names) ==
    IF \E i \in 1..Len(line) : make_column(line[i]).error # NoError
    THEN [error |-> runtime_error("table has no column"), columns |-> cols,
          all_column_names |-> names, show_column_headers |-> FALSE]
    ELSE [error |-> NoError,
          columns |-> cols \o [i \in 1..Len(line) |-> columnOrNull(line[i])],
          all_column_names |-> names \cup Range(line),
          show_column_headers |-> FALSE]

\* The while loop appends one column per name of the line.
parseColumnsLine(line, cols, names) ==
    [error |-> NoError,
     columns |-> cols \o [i \in 1..Len(line) |-> columnOrNull(line[i])],
     all_column_names |-> names \cup Range(line),
     show_column_headers |-> FALSE]

\* ColumnHeaders: and KeepAlive:
parseOnOffLine(line, old) ==
    LET value == nextStringArgument(line)
    IN  IF value.error # NoError THEN [error |-> value.error, value |-> old]
        ELSE IF value.argument = "on" THEN [error |-> NoError, value |-> TRUE]
        ELSE IF value.argument = "off" THEN [error |-> NoError, value |-> FALSE]
        ELSE [error |-> runtime_error("expected 'on' or 'off'"), value |-> old]

\* Mutant: a value that is neither 'off' nor 'fixed16' fails the line and
\* switches the response header off.
parseResponseHeaderLine_resetsOnError(line, old) ==
    LET value == nextStringArgument(line)
    IN  IF value.error # NoError THEN [error |-> value.error, value |-> old]
        ELSE IF value.argument \in {"off", "fixed16"}
        THEN [error |-> NoError, value |-> value.argument]
        ELSE [error |-> runtime_error("expected 'off' or 'fixed16'"), value |-> "off"]

parseResponseHeaderLine(line, old) ==
    LET value == nextStringArgument(line)
    IN  IF value.error # NoError THEN [error |-> value.error, value |-> old]
        ELSE IF value.argument \in {"off", "fixed16"}
        THEN [error |-> NoError, value |-> value.argument]
        ELSE [error |-> runtime_error("expected 'off' or 'fixed16'"), value |-> old]

\* The map formats.
formats ==
    ("CSV" :> "csv") @@ ("csv" :> "broken_csv") @@ ("json" :> "json") @@
    ("python" :> "python3") @@ ("python3" :> "python3")

parseOutputFormatLine(line, old) ==
    LET value == nextStringArgument(line)
    IN  IF value.error # NoError THEN [error |-> value.error, value |-> old]
        ELSE IF value.argument \in DOMAIN formats
        THEN [error |-> NoError, value |-> formats[value.argument]]
        ELSE [error |-> runtime_error("missing/invalid output format"),
              value |-> old]

\* static_cast<char>(int) as the byte it leaves
ByteOf(value) == value % 256

\* Mutant: each separator is assigned as soon as it has been parsed.
parseSeparatorsLine_assignsAsParsed(line, old) ==
    LET dsep == nextNonNegativeIntegerArgument(line)
        fsep == nextNonNegativeIntegerArgument(dsep.rest)
        lsep == nextNonNegativeIntegerArgument(fsep.rest)
        hsep == nextNonNegativeIntegerArgument(lsep.rest)
    IN  IF dsep.error # NoError THEN [error |-> dsep.error, value |-> old]
        ELSE IF fsep.error # NoError
        THEN [error |-> fsep.error,
              value |-> <<ByteOf(dsep.value), old[2], old[3], old[4]>>]
        ELSE IF lsep.error # NoError
        THEN [error |-> lsep.error,
              value |-> <<ByteOf(dsep.value), ByteOf(fsep.value), old[3], old[4]>>]
        ELSE IF hsep.error # NoError
        THEN [error |-> hsep.error,
              value |-> <<ByteOf(dsep.value), ByteOf(fsep.value),
                          ByteOf(lsep.value), old[4]>>]
        ELSE [error |-> NoError,
              value |-> <<ByteOf(dsep.value), ByteOf(fsep.value),
                          ByteOf(lsep.value), ByteOf(hsep.value)>>]

parseSeparatorsLine(line, old) ==
    LET dsep == nextNonNegativeIntegerArgument(line)
        fsep == nextNonNegativeIntegerArgument(dsep.rest)
        lsep == nextNonNegativeIntegerArgument(fsep.rest)
        hsep == nextNonNegativeIntegerArgument(lsep.rest)
    IN  IF dsep.error # NoError THEN [error |-> dsep.error, value |-> old]
        ELSE IF fsep.error # NoError THEN [error |-> fsep.error, value |-> old]
        ELSE IF lsep.error # NoError THEN [error |-> lsep.error, value |-> old]
        ELSE IF hsep.error # NoError THEN [error |-> hsep.error, value |-> old]
        ELSE [error |-> NoError,
              value |-> <<ByteOf(dsep.value), ByteOf(fsep.value),
                          ByteOf(lsep.value), ByteOf(hsep.value)>>]

\* std::chrono::round: to the nearest multiple of `unit`, a tie to the even one
RoundTo(d, unit) ==
    LET lo == d \div unit
        rest == d - lo * unit
    IN  IF 2 * rest < unit THEN lo
        ELSE IF 2 * rest > unit THEN lo + 1
        ELSE IF lo % 2 = 0 THEN lo ELSE lo + 1

\* abs(offset)
Abs(x) == IF x < 0 THEN -x ELSE x

\* Mutant: the difference is truncated to the half hour (duration_cast), not
\* rounded.
parseLocaltimeLine_truncates(line, now, old) ==
    LET client == nextNonNegativeIntegerArgument(line)
        d == client.value - now
        offset == (IF d < 0 THEN -((-d) \div 1800) ELSE d \div 1800) * 1800
    IN  IF client.error # NoError THEN [error |-> client.error, value |-> old]
        ELSE IF Abs(offset) >= 24 * 3600
        THEN [error |-> runtime_error("timezone difference greater than or equal to 24 hours"),
              value |-> old]
        ELSE [error |-> NoError, value |-> offset]

\* The offset in seconds, `now` being system_clock::now().
parseLocaltimeLine(line, now, old) ==
    LET client == nextNonNegativeIntegerArgument(line)
        offset == RoundTo(client.value - now, 1800) * 1800
    IN  IF client.error # NoError THEN [error |-> client.error, value |-> old]
        ELSE IF Abs(offset) >= 24 * 3600
        THEN [error |-> runtime_error("timezone difference greater than or equal to 24 hours"),
              value |-> old]
        ELSE [error |-> NoError, value |-> offset]

\* ICore::find_user: the user of that name.
Contacts == {"alice"}

find_user(name) ==
    IF Len(name) = 1 /\ name[1] \in Contacts
    THEN [error |-> NoError, user |-> name[1]]
    ELSE [error |-> runtime_error("unknown user"), user |-> ""]

\* A servicegroup of the core: its row as the columns of the table show it,
\* and the contacts that are authorized for it.
servicegroup(group_name, alias, num_services, contacts) ==
    [row |-> [c \in StringColumns \cup IntColumns |->
                 IF c = "name" THEN group_name
                 ELSE IF c = "alias" THEN alias
                 ELSE IF c \in StringColumns THEN ""
                 ELSE IF c = "num_services" THEN num_services ELSE 0],
     contacts |-> contacts]

\* TableServiceGroups::get: the name of the group of that name, the null Row
\* ("") when find_servicegroup finds none.
get(primary_key) ==
    IF /\ Len(primary_key) = 1
       /\ \E i \in 1..Len(servicegroup_list) :
              servicegroup_list[i].row["name"] = primary_key[1]
    THEN primary_key[1] ELSE ""

\* Mutant: the Row is checked first and assigned only when it is not null.
parseWaitObjectLine_checksFirst(line) ==
    IF get(line) = ""
    THEN [error |-> runtime_error("primary key not found or not supported by this table"),
          value |-> wait_object]
    ELSE [error |-> NoError, value |-> get(line)]

\* wait_object is assigned before it is checked.
parseWaitObjectLine(line) ==
    IF get(line) = ""
    THEN [error |-> runtime_error("primary key not found or not supported by this table"),
          value |-> get(line)]
    ELSE [error |-> NoError, value |-> get(line)]

----------------------------------------------------------------------------
(* The output buffer: the calls the constructor makes on it. *)

setError(code, header, what) ==
    [call |-> "setError", code |-> code, header |-> header, what |-> what,
     mode |-> ""]

setResponseHeader(mode) ==
    [call |-> "setResponseHeader", code |-> "", header |-> "", what |-> NoError,
     mode |-> mode]

----------------------------------------------------------------------------
(* The constructor *)

Absent == [has |-> FALSE, value |-> 0]

Some(v) == [has |-> TRUE, value |-> v]

\* The core of the specifications of the builder: two service groups.
InitCore ==
    servicegroup_list = << servicegroup("web", "db", 2, {"alice"}),
                           servicegroup("foo", "bar", 0, {}) >>

\* The state when the for loop is entered.
InitQuery ==
    /\ pos = 0
    /\ pc = "lines"
    /\ filters = <<>>
    /\ wait_conditions = <<>>
    /\ stats_columns = <<>>
    /\ columns = <<>>
    /\ all_column_names = {}
    /\ show_column_headers = TRUE
    /\ keepalive = FALSE
    /\ limit = Absent
    /\ time_limit = [has |-> FALSE, duration |-> 0, deadline |-> 0]
    /\ user = "NoAuthUser"
    /\ separators = <<10, 59, 44, 124>>
    /\ output_format = "broken_csv"
    /\ response_header = "off"
    /\ wait_timeout = Absent
    /\ wait_trigger = ""
    /\ wait_object = ""
    /\ timezone_offset = 0
    /\ filter = NoFilter
    /\ wait_condition = NoFilter
    /\ output = <<>>
    /\ sg = 0
    /\ calls = <<>>
    /\ records = <<>>

\* The line of the current iteration.
Cur == lines[pos + 1]

AtLine(headers) ==
    /\ pc = "lines"
    /\ pos < Len(lines)
    /\ Cur.header \in headers

\* Mutant: the exception leaves the constructor.
Catch_rethrow(error) ==
    /\ pos' = pos + 1
    /\ pc' = IF error = NoError THEN "lines" ELSE "done"
    /\ output' = output
    /\ lines' = lines
    /\ UNCHANGED <<servicegroup_list, answerer>>

\* Mutant: the exception is swallowed without a word.
Catch_silent(error) ==
    /\ pos' = pos + 1
    /\ pc' = "lines"
    /\ output' = output
    /\ lines' = lines
    /\ UNCHANGED <<servicegroup_list, answerer>>

\* The end of one iteration: the catch clause when the parser threw `error`,
\* then on to the next line.
Catch(error) ==
    /\ pos' = pos + 1
    /\ pc' = "lines"
    /\ output' = IF error = NoError THEN output
                 ELSE Append(output, setError("bad_request", Cur.header, error))
    /\ lines' = lines
    /\ UNCHANGED <<servicegroup_list, answerer>>

\* Filter: and WaitCondition:
FilterLine ==
    /\ AtLine({"Filter", "WaitCondition"})
    /\ LET row == Cur.header = "Filter"
           r == parseFilterLine(Cur.args, IF row THEN filters ELSE wait_conditions,
                                all_column_names)
       IN  /\ filters' = IF row THEN r.filters ELSE filters
           /\ wait_conditions' = IF row THEN wait_conditions ELSE r.filters
           /\ all_column_names' = r.all_column_names
           /\ Catch(r.error)
    /\ UNCHANGED <<stats_columns, columns, show_column_headers, settings, roots>>

\* And: Or: WaitConditionAnd: WaitConditionOr:
AndOrLine ==
    /\ AtLine({"And", "Or", "WaitConditionAnd", "WaitConditionOr"})
    /\ LET row == Cur.header \in {"And", "Or"}
           connective == IF Cur.header \in {"And", "WaitConditionAnd"}
                         THEN "and" ELSE "or"
           r == parseAndOrLine(Cur.args, IF row THEN "row" ELSE "wait_condition",
                               connective,
                               IF row THEN filters ELSE wait_conditions)
       IN  /\ filters' = IF row THEN r.filters ELSE filters
           /\ wait_conditions' = IF row THEN wait_conditions ELSE r.filters
           /\ Catch(r.error)
    /\ UNCHANGED <<stats_columns, outcols, settings, roots>>

\* Negate: and WaitConditionNegate:
NegateLine ==
    /\ AtLine({"Negate", "WaitConditionNegate"})
    /\ LET row == Cur.header = "Negate"
           r == parseNegateLine(Cur.args, IF row THEN filters ELSE wait_conditions)
       IN  /\ filters' = IF row THEN r.filters ELSE filters
           /\ wait_conditions' = IF row THEN wait_conditions ELSE r.filters
           /\ Catch(r.error)
    /\ UNCHANGED <<stats_columns, outcols, settings, roots>>

\* StatsAnd: and StatsOr:
StatsAndOrLine ==
    /\ AtLine({"StatsAnd", "StatsOr"})
    /\ LET r == parseStatsAndOrLine(Cur.args,
                                    IF Cur.header = "StatsAnd" THEN "and" ELSE "or",
                                    stats_columns)
       IN  /\ stats_columns' = r.stats_columns
           /\ Catch(r.error)
    /\ UNCHANGED <<filters, wait_conditions, outcols, settings, roots>>

\* StatsNegate:
StatsNegateLine ==
    /\ AtLine({"StatsNegate"})
    /\ LET r == parseStatsNegateLine(Cur.args, stats_columns)
       IN  /\ stats_columns' = r.stats_columns
           /\ Catch(r.error)
    /\ UNCHANGED <<filters, wait_conditions, outcols, settings, roots>>

\* Stats:
StatsLine ==
    /\ AtLine({"Stats"})
    /\ LET r == parseStatsLine(Cur.args, stats_columns, all_column_names,
                               show_column_headers)
       IN  /\ stats_columns' = r.stats_columns
           /\ all_column_names' = r.all_column_names
           /\ show_column_headers' = r.show_column_headers
           /\ Catch(r.error)
    /\ UNCHANGED <<filters, wait_conditions, columns, settings, roots>>

\* Columns:
ColumnsLine ==
    /\ AtLine({"Columns"})
    /\ LET r == parseColumnsLine(Cur.args, columns, all_column_names)
       IN  /\ columns' = r.columns
           /\ all_column_names' = r.all_column_names
           /\ show_column_headers' = r.show_column_headers
           /\ Catch(r.error)
    /\ UNCHANGED <<stacks, settings, roots>>

\* ColumnHeaders:
ColumnHeadersLine ==
    /\ AtLine({"ColumnHeaders"})
    /\ LET r == parseOnOffLine(Cur.args, show_column_headers)
       IN  /\ show_column_headers' = r.value
           /\ Catch(r.error)
    /\ UNCHANGED <<stacks, columns, all_column_names, settings, roots>>

\* Limit:
LimitLine ==
    /\ AtLine({"Limit"})
    /\ LET r == nextNonNegativeIntegerArgument(Cur.args)
       IN  /\ limit' = IF r.error = NoError THEN Some(r.value) ELSE limit
           /\ Catch(r.error)
    /\ UNCHANGED <<stacks, outcols, roots, keepalive, time_limit, user,
                   separators, output_format, response_header, wait_timeout,
                   wait_trigger, wait_object, timezone_offset>>

\* The readings of std::chrono::steady_clock and of system_clock, in seconds.
SteadyClock == {5, 7}

SystemClock == {90000, 90001}

\* Timelimit:
TimelimitLine ==
    /\ AtLine({"Timelimit"})
    /\ \E now \in SteadyClock :
          LET r == nextNonNegativeIntegerArgument(Cur.args)
          IN  /\ time_limit' = IF r.error = NoError
                               THEN [has |-> TRUE, duration |-> r.value,
                                     deadline |-> now + r.value]
                               ELSE time_limit
              /\ Catch(r.error)
    /\ UNCHANGED <<stacks, outcols, roots, keepalive, limit, user,
                   separators, output_format, response_header, wait_timeout,
                   wait_trigger, wait_object, timezone_offset>>

\* AuthUser:
AuthUserLine ==
    /\ AtLine({"AuthUser"})
    /\ LET r == find_user(Cur.args)
       IN  /\ user' = IF r.error = NoError THEN r.user ELSE user
           /\ Catch(r.error)
    /\ UNCHANGED <<stacks, outcols, roots, keepalive, limit, time_limit,
                   separators, output_format, response_header, wait_timeout,
                   wait_trigger, wait_object, timezone_offset>>

\* Separators:
SeparatorsLine ==
    /\ AtLine({"Separators"})
    /\ LET r == parseSeparatorsLine(Cur.args, separators)
       IN  /\ separators' = r.value
           /\ Catch(r.error)
    /\ UNCHANGED <<stacks, outcols, roots, keepalive, limit, time_limit, user,
                   output_format, response_header, wait_timeout,
                   wait_trigger, wait_object, timezone_offset>>

\* OutputFormat:
OutputFormatLine ==
    /\ AtLine({"OutputFormat"})
    /\ LET r == parseOutputFormatLine(Cur.args, output_format)
       IN  /\ output_format' = r.value
           /\ Catch(r.error)
    /\ UNCHANGED <<stacks, outcols, roots, keepalive, limit, time_limit, user,
                   separators, response_header, wait_timeout,
                   wait_trigger, wait_object, timezone_offset>>

\* ResponseHeader:
ResponseHeaderLine ==
    /\ AtLine({"ResponseHeader"})
    /\ LET r == parseResponseHeaderLine(Cur.args, response_header)
       IN  /\ response_header' = r.value
           /\ Catch(r.error)
    /\ UNCHANGED <<stacks, outcols, roots, keepalive, limit, time_limit, user,
                   separators, output_format, wait_timeout,
                   wait_trigger, wait_object, timezone_offset>>

\* KeepAlive:
KeepAliveLine ==
    /\ AtLine({"KeepAlive"})
    /\ LET r == parseOnOffLine(Cur.args, keepalive)
       IN  /\ keepalive' = r.value
           /\ Catch(r.error)
    /\ UNCHANGED <<stacks, outcols, roots, limit, time_limit, user,
                   separators, output_format, response_header, wait_timeout,
                   wait_trigger, wait_object, timezone_offset>>

\* WaitTrigger: Triggers::find of the name
WaitTriggerLine ==
    /\ AtLine({"WaitTrigger"})
    /\ LET r == nextStringArgument(Cur.args)
       IN  /\ wait_trigger' = IF r.error = NoError THEN r.argument ELSE wait_trigger
           /\ Catch(r.error)
    /\ UNCHANGED <<stacks, outcols, roots, keepalive, limit, time_limit, user,
                   separators, output_format, response_header, wait_timeout,
                   wait_object, timezone_offset>>

\* WaitObject:
WaitObjectLine ==
    /\ AtLine({"WaitObject"})
    /\ LET r == parseWaitObjectLine(Cur.args)
       IN  /\ wait_object' = r.value
           /\ Catch(r.error)
    /\ UNCHANGED <<stacks, outcols, roots, keepalive, limit, time_limit, user,
                   separators, output_format, response_header, wait_timeout,
                   wait_trigger, timezone_offset>>

\* WaitTimeout: milliseconds
WaitTimeoutLine ==
    /\ AtLine({"WaitTimeout"})
    /\ LET r == nextNonNegativeIntegerArgument(Cur.args)
       IN  /\ wait_timeout' = IF r.error = NoError THEN Some(r.value)
                              ELSE wait_timeout
           /\ Catch(r.error)
    /\ UNCHANGED <<stacks, outcols, roots, keepalive, limit, time_limit, user,
                   separators, output_format, response_header,
                   wait_trigger, wait_object, timezone_offset>>

\* Localtime:
LocaltimeLine ==
    /\ AtLine({"Localtime"})
    /\ \E now \in SystemClock :
          LET r == parseLocaltimeLine(Cur.args, now, timezone_offset)
          IN  /\ timezone_offset' = r.value
              /\ Catch(r.error)
    /\ UNCHANGED <<stacks, outcols, roots, keepalive, limit, time_limit, user,
                   separators, output_format, response_header, wait_timeout,
                   wait_trigger, wait_object>>

\* The headers the constructor knows.
Headers ==
    { "Filter", "Or", "And", "Negate", "StatsOr", "StatsAnd", "StatsNegate",
      "Stats", "Columns", "ColumnHeaders", "Limit", "Timelimit", "AuthUser",
      "Separators", "OutputFormat", "ResponseHeader", "KeepAlive",
      "WaitCondition", "WaitConditionAnd", "WaitConditionOr",
      "WaitConditionNegate", "WaitTrigger", "WaitObject", "WaitTimeout",
      "Localtime" }

\* Any other header: "undefined request header"
UndefinedHeaderLine ==
    /\ pc = "lines"
    /\ pos < Len(lines)
    /\ Cur.header \notin Headers
    /\ Catch(runtime_error("undefined request header"))
    /\ UNCHANGED <<stacks, outcols, settings, roots>>

\* Mutant: the default columns are filled in but the header flag is kept.
Finish_keepsFlag ==
    /\ pc = "lines"
    /\ pos = Len(lines)
    /\ IF columns = <<>> /\ stats_columns = <<>>
       THEN /\ columns' = any_column
            /\ all_column_names' = all_column_names \cup Range(TableColumns)
            /\ show_column_headers' = show_column_headers
       ELSE UNCHANGED outcols
    /\ filter' = AndingFilter_make("row", filters)
    /\ wait_condition' = AndingFilter_make("wait_condition", wait_conditions)
    /\ output' = Append(output, setResponseHeader(response_header))
    /\ pc' = "done"
    /\ UNCHANGED <<lines, pos, stacks, settings, servicegroup_list, answerer>>

\* Mutant: the roots are built from the top of the stacks only.
Finish_topOnly ==
    /\ pc = "lines"
    /\ pos = Len(lines)
    /\ IF columns = <<>> /\ stats_columns = <<>>
       THEN /\ columns' = any_column
            /\ all_column_names' = all_column_names \cup Range(TableColumns)
            /\ show_column_headers' = TRUE
       ELSE UNCHANGED outcols
    /\ filter' = AndingFilter_make("row", IF filters = <<>> THEN <<>>
                                          ELSE <<Last(filters)>>)
    /\ wait_condition' = AndingFilter_make("wait_condition",
                                           IF wait_conditions = <<>> THEN <<>>
                                           ELSE <<Last(wait_conditions)>>)
    /\ output' = Append(output, setResponseHeader(response_header))
    /\ pc' = "done"
    /\ UNCHANGED <<lines, pos, stacks, settings, servicegroup_list, answerer>>

\* The code after the loop: default columns, the two roots, the response header.
Finish ==
    /\ pc = "lines"
    /\ pos = Len(lines)
    /\ IF columns = <<>> /\ stats_columns = <<>>
       THEN /\ columns' = any_column
            /\ all_column_names' = all_column_names \cup Range(TableColumns)
            /\ show_column_headers' = TRUE
       ELSE UNCHANGED outcols
    /\ filter' = AndingFilter_make("row", filters)
    /\ wait_condition' = AndingFilter_make("wait_condition", wait_conditions)
    /\ output' = Append(output, setResponseHeader(response_header))
    /\ pc' = "done"
    /\ UNCHANGED <<lines, pos, stacks, settings, servicegroup_list, answerer>>

----------------------------------------------------------------------------
(* The answerer: TableServiceGroups::answerQuery offers the service groups  *)
(* to Query::processDataset.                                                *)

\* TableServiceGroups::isAuthorized: everybody when no AuthUser: line named a
\* contact, else the contacts of the group.
isAuthorized(group, ctc) == ctc = "NoAuthUser" \/ ctc \in group.contacts

\* The limit is reached with `count` records emitted.
limitReached(count) == limit.has /\ count >= limit.value

\* Query::processDataset of one row, `count` records emitted so far, `now`
\* the reading of the steady clock: the row is dropped when the user is not
\* authorized for it or the filter rejects it; with stats columns it goes to
\* the aggregations, else it is emitted as one record, as long as the limit
\* is not reached; the iteration stops at this row when the emitted count
\* has reached the limit or the deadline has passed.
processDataset(group, count, now) ==
    LET emit == /\ isAuthorized(group, user)
                /\ accepts(filter, group.row)
                /\ stats_columns = <<>>
                /\ ~limitReached(count)
        timeout == time_limit.has /\ now >= time_limit.deadline
    IN  [emit |-> emit,
         timeout |-> timeout,
         continue |-> ~limitReached(IF emit THEN count + 1 ELSE count) /\ ~timeout]

\* The readings of the steady clock while the table is scanned.
SteadyClockLater == {8, 16}

\* for (const auto *sg = servicegroup_list; ...
AnswerQueryBegin ==
    /\ pc = "done"
    /\ sg' = 1
    /\ pc' = "answer"
    /\ UNCHANGED <<lines, pos, stacks, outcols, settings, roots, output,
                   servicegroup_list, calls, records>>

\* Mutant: the loop is left when processDataset returns true.
AnswerQueryRow_breaksOnTrue ==
    /\ pc = "answer"
    /\ sg <= Len(servicegroup_list)
    /\ \E now \in SteadyClockLater :
          LET r == processDataset(servicegroup_list[sg], Len(records), now)
          IN  /\ calls' = Append(calls, [sg |-> sg, result |-> r.continue,
                                         timeout |-> r.timeout])
              /\ records' = IF r.emit THEN Append(records, servicegroup_list[sg].row)
                            ELSE records
              /\ sg' = IF ~r.continue THEN sg + 1 ELSE sg
              /\ pc' = IF ~r.continue THEN "answer" ELSE "answered"
    /\ UNCHANGED <<lines, pos, stacks, outcols, settings, roots, output,
                   servicegroup_list>>

\* Mutant: the result of processDataset is ignored.
AnswerQueryRow_ignoresResult ==
    /\ pc = "answer"
    /\ sg <= Len(servicegroup_list)
    /\ \E now \in SteadyClockLater :
          LET r == processDataset(servicegroup_list[sg], Len(records), now)
          IN  /\ calls' = Append(calls, [sg |-> sg, result |-> r.continue,
                                         timeout |-> r.timeout])
              /\ records' = IF r.emit THEN Append(records, servicegroup_list[sg].row)
                            ELSE records
              /\ sg' = sg + 1
              /\ pc' = "answer"
    /\ UNCHANGED <<lines, pos, stacks, outcols, settings, roots, output,
                   servicegroup_list>>

\* One iteration of the loop with sg # nullptr: processDataset(Row(r)), break
\* when it returns false, else sg = sg->next.
AnswerQueryRow ==
    /\ pc = "answer"
    /\ sg <= Len(servicegroup_list)
    /\ \E now \in SteadyClockLater :
          LET r == processDataset(servicegroup_list[sg], Len(records), now)
          IN  /\ calls' = Append(calls, [sg |-> sg, result |-> r.continue,
                                         timeout |-> r.timeout])
              /\ records' = IF r.emit THEN Append(records, servicegroup_list[sg].row)
                            ELSE records
              /\ sg' = IF r.continue THEN sg + 1 ELSE sg
              /\ pc' = IF r.continue THEN "answer" ELSE "answered"
    /\ UNCHANGED <<lines, pos, stacks, outcols, settings, roots, output,
                   servicegroup_list>>

\* sg == nullptr: the loop ends and answerQuery returns.
AnswerQueryEnd ==
    /\ pc = "answer"
    /\ sg > Len(servicegroup_list)
    /\ pc' = "answered"
    /\ UNCHANGED <<lines, pos, stacks, outcols, settings, roots, output,
                   servicegroup_list, answerer>>

----------------------------------------------------------------------------
(* Requests *)

Line(header, args) == [header |-> header, args |-> args]

\* Lines of the two filter stacks.
StackLines ==
    { Line("Filter", <<"name", "=", "foo">>),
      Line("Filter", <<"alias", "~", "bar">>),
      Line("And", <<"0">>), Line("And", <<"2">>), Line("And", <<"3">>),
      Line("Or", <<"2">>),
      Line("Negate", <<>>),
      Line("WaitCondition", <<"name", "=", "foo">>),
      Line("WaitConditionAnd", <<"2">>),
      Line("WaitConditionOr", <<"1">>) }

InitStack == lines \in SeqsUpTo(StackLines, MaxLines) /\ InitCore /\ InitQuery

NextStack == FilterLine \/ AndOrLine \/ NegateLine \/ Finish

\* Requests that only work on the two filter stacks.
SpecStack == InitStack /\ [][NextStack]_vars

\* Lines that fail, each in its own way, and lines that succeed.
ErrLines ==
    { Line("Filter", <<"name", "=", "foo">>),
      Line("Filter", <<"bogus", "=", "foo">>),
      Line("WaitCondition", <<"bogus", "=", "foo">>),
      Line("Stats", <<"bogus", "=", "1">>),
      Line("Stats", <<"sum", "num_services">>),
      Line("And", <<"2">>),
      Line("And", <<"x">>),
      Line("Negate", <<>>),
      Line("filter", <<"name", "=", "foo">>),
      Line("Frobnicate", <<>>) }

InitErr == lines \in SeqsUpTo(ErrLines, MaxErrLines) /\ InitCore /\ InitQuery

NextErr ==
    \/ FilterLine
    \/ AndOrLine
    \/ NegateLine
    \/ StatsLine
    \/ UndefinedHeaderLine
    \/ Finish

\* Requests with failing lines.
SpecErr == InitErr /\ [][NextErr]_vars

\* Lines of the stats columns.
StatsLines ==
    { Line("Stats", <<"num_services_warn", ">", "0">>),
      Line("Stats", <<"num_services_crit", ">", "0">>),
      Line("Stats", <<"sum", "num_services">>),
      Line("Stats", <<"bogus", "=", "1">>),
      Line("StatsAnd", <<"2">>),
      Line("StatsOr", <<"2">>),
      Line("StatsOr", <<"0">>),
      Line("StatsNegate", <<>>),
      Line("ColumnHeaders", <<"on">>) }

InitStats == lines \in SeqsUpTo(StatsLines, MaxStatsLines) /\ InitCore /\ InitQuery

NextStats ==
    \/ StatsLine
    \/ StatsAndOrLine
    \/ StatsNegateLine
    \/ ColumnHeadersLine
    \/ Finish

\* Requests for statistics.
SpecStats == InitStats /\ [][NextStats]_vars

\* Lines that decide the output columns and the header row.
ColumnsLines ==
    { Line("Columns", <<"name", "num_services">>),
      Line("Columns", <<"alias", "bogus">>),
      Line("Columns", <<>>),
      Line("ColumnHeaders", <<"on">>),
      Line("ColumnHeaders", <<"off">>),
      Line("Stats", <<"sum", "num_services">>),
      Line("Stats", <<"bogus", "=", "1">>),
      Line("Stats", <<"sum", "bogus">>),
      Line("StatsAnd", <<"2">>),
      Line("Filter", <<"bogus", "=", "1">>),
      Line("WaitCondition", <<"bogus", "=", "1">>) }

InitColumns == lines \in SeqsUpTo(ColumnsLines, MaxColumnsLines) /\ InitCore /\ InitQuery

NextColumns ==
    \/ ColumnsLine
    \/ ColumnHeadersLine
    \/ StatsLine
    \/ StatsAndOrLine
    \/ FilterLine
    \/ Finish

\* Requests that choose columns.
SpecColumns == InitColumns /\ [][NextColumns]_vars

\* ResponseHeader: lines that succeed and that fail, among other lines.
HeaderLines ==
    { Line("ResponseHeader", <<"fixed16">>),
      Line("ResponseHeader", <<"off">>),
      Line("ResponseHeader", <<"on">>),
      Line("ResponseHeader", <<>>),
      Line("ResponseHeader", <<"fixed16", "x">>),
      Line("Frobnicate", <<>>),
      Line("Limit", <<"2x">>),
      Line("KeepAlive", <<"on">>) }

InitHeader == lines \in SeqsUpTo(HeaderLines, MaxHeaderLines) /\ InitCore /\ InitQuery

NextHeader ==
    \/ ResponseHeaderLine
    \/ LimitLine
    \/ KeepAliveLine
    \/ UndefinedHeaderLine
    \/ Finish

\* Requests that choose the response header.
SpecHeader == InitHeader /\ [][NextHeader]_vars

\* Lines that combine no filter, or one.
IdentityLines ==
    { Line("Filter", <<"name", "=", "foo">>),
      Line("Filter", <<"alias", "~", "bar">>),
      Line("And", <<"0">>), Line("Or", <<"0">>),
      Line("And", <<"1">>), Line("Or", <<"1">>),
      Line("WaitCondition", <<"name", "=", "foo">>),
      Line("WaitConditionOr", <<"0">>),
      Line("WaitConditionAnd", <<"1">>) }

InitIdentity ==
    lines \in SeqsUpTo(IdentityLines, MaxIdentityLines) /\ InitCore /\ InitQuery

NextIdentity == FilterLine \/ AndOrLine \/ Finish

\* Requests that combine no filter, or one.
SpecIdentity == InitIdentity /\ [][NextIdentity]_vars

\* Lines that negate, on each of the three stacks.
NegateLines ==
    { Line("Filter", <<"name", "=", "foo">>),
      Line("Filter", <<"alias", "~", "bar">>),
      Line("Or", <<"2">>),
      Line("Negate", <<>>),
      Line("Negate", <<"x">>),
      Line("WaitCondition", <<"num_services", ">", "0">>),
      Line("WaitConditionNegate", <<>>),
      Line("Stats", <<"num_services", "=", "2">>),
      Line("Stats", <<"sum", "num_services">>),
      Line("StatsNegate", <<>>) }

InitNegate == lines \in SeqsUpTo(NegateLines, MaxNegateLines) /\ InitCore /\ InitQuery

NextNegate ==
    \/ FilterLine
    \/ AndOrLine
    \/ NegateLine
    \/ StatsLine
    \/ StatsNegateLine
    \/ Finish

\* Requests that negate.
SpecNegate == InitNegate /\ [][NextNegate]_vars

\* Localtime: lines around the half-hour ties and the 24 hour limit, for the
\* clock readings of SystemClock.
LocaltimeLines ==
    { Line("Localtime", <<"90900">>), Line("Localtime", <<"91800">>),
      Line("Localtime", <<"92700">>), Line("Localtime", <<"89100">>),
      Line("Localtime", <<"0">>), Line("Localtime", <<"4501">>),
      Line("Localtime", <<"175500">>), Line("Localtime", <<"176400">>),
      Line("Localtime", <<"1.5">>) }

InitLocaltime == lines \in SeqsUpTo(LocaltimeLines, MaxLocaltimeLines) /\ InitCore /\ InitQuery

NextLocaltime == LocaltimeLine \/ Finish

\* Requests that tell the client's time.
SpecLocaltime == InitLocaltime /\ [][NextLocaltime]_vars

\* Lines that decide which rows are emitted, and how many.
AnswerLines ==
    { Line("Filter", <<"name", "=", "foo">>),
      Line("Limit", <<"0">>),
      Line("Limit", <<"2">>),
      Line("Timelimit", <<"10">>),
      Line("AuthUser", <<"alice">>) }

\* The service groups the core may hold.
AnswerGroups ==
    { servicegroup("foo", "bar", 2, {"alice"}),
      servicegroup("web", "db", 0, {"alice"}),
      servicegroup("foo", "foobar", 0, {}) }

InitAnswer ==
    /\ lines \in SeqsUpTo(AnswerLines, MaxAnswerLines)
    /\ servicegroup_list \in SeqsUpTo(AnswerGroups, MaxGroups)
    /\ InitQuery

NextAnswer ==
    \/ FilterLine
    \/ LimitLine
    \/ TimelimitLine
    \/ AuthUserLine
    \/ Finish
    \/ AnswerQueryBegin
    \/ AnswerQueryRow
    \/ AnswerQueryEnd

\* A request and the scan of the table that answers it.
SpecAnswer == InitAnswer /\ [][NextAnswer]_vars

\* The same, the one thread of the query running on as long as it has a step
\* to take.
FairSpecAnswer == SpecAnswer /\ WF_vars(NextAnswer)

\* Lines that set one field of the plan, each header with a line that fails,
\* among a line of an undefined header and one that pushes a filter.
SettingLines ==
    { Line("Limit", <<"3">>), Line("Limit", <<"5">>), Line("Limit", <<"-1">>),
      Line("Timelimit", <<"10">>), Line("Timelimit", <<"x">>),
      Line("WaitTimeout", <<"900">>), Line("WaitTimeout", <<>>),
      Line("KeepAlive", <<"on">>), Line("KeepAlive", <<"yes">>),
      Line("ResponseHeader", <<"fixed16">>), Line("ResponseHeader", <<"on">>),
      Line("OutputFormat", <<"json">>), Line("OutputFormat", <<"xml">>),
      Line("Separators", <<"0", "1", "2", "3">>),
      Line("Separators", <<"4", "5", "300", "x">>),
      Line("Localtime", <<"91800">>), Line("Localtime", <<"175500">>),
      Line("Frobnicate", <<"1">>),
      Line("Filter", <<"name", "=", "foo">>) }

InitSetting == lines \in SeqsUpTo(SettingLines, MaxSettingLines) /\ InitCore /\ InitQuery

NextSetting ==
    \/ LimitLine
    \/ TimelimitLine
    \/ WaitTimeoutLine
    \/ KeepAliveLine
    \/ ResponseHeaderLine
    \/ OutputFormatLine
    \/ SeparatorsLine
    \/ LocaltimeLine
    \/ UndefinedHeaderLine
    \/ FilterLine
    \/ Finish

\* Requests that set the fields of the plan.
SpecSetting == InitSetting /\ [][NextSetting]_vars

\* Lines of the wait headers: WaitObject: with keys that a core resolves and
\* keys that none does.
WaitLines ==
    { Line("WaitObject", <<"web">>), Line("WaitObject", <<"foo">>),
      Line("WaitObject", <<"nowhere">>), Line("WaitObject", <<>>),
      Line("WaitTrigger", <<"check">>),
      Line("WaitTimeout", <<"900">>),
      Line("WaitCondition", <<"num_services", ">", "0">>),
      Line("Frobnicate", <<"1">>) }

\* The service groups the core may hold.
WaitCores ==
    { << servicegroup("web", "db", 2, {"alice"}), servicegroup("foo", "bar", 0, {}) >>,
      << servicegroup("web", "db", 2, {"alice"}) >>,
      << >> }

InitWait ==
    /\ lines \in SeqsUpTo(WaitLines, MaxWaitLines)
    /\ servicegroup_list \in WaitCores
    /\ InitQuery

NextWait ==
    \/ WaitObjectLine
    \/ WaitTriggerLine
    \/ WaitTimeoutLine
    \/ FilterLine
    \/ UndefinedHeaderLine
    \/ Finish

\* Requests that wait.
SpecWait == InitWait /\ [][NextWait]_vars

\* Lines of every header.
AllLines ==
    { Line("Filter", <<"name", "=", "foo">>),
      Line("Or", <<"1">>),
      Line("Negate", <<>>),
      Line("WaitCondition", <<"alias", "~", "bar">>),
      Line("WaitConditionAnd", <<"0">>),
      Line("WaitConditionNegate", <<>>),
      Line("Stats", <<"num_services_crit", ">", "0">>),
      Line("StatsAnd", <<"1">>),
      Line("StatsNegate", <<>>),
      Line("Columns", <<"name", "bogus">>),
      Line("ColumnHeaders", <<"on">>),
      Line("Limit", <<"3">>),
      Line("Limit", <<"3", "4">>),
      Line("Timelimit", <<"10">>),
      Line("AuthUser", <<"alice">>),
      Line("Separators", <<"10", "59", "44", "124">>),
      Line("Separators", <<"10", "59", "44">>),
      Line("OutputFormat", <<"json">>),
      Line("ResponseHeader", <<"fixed16">>),
      Line("KeepAlive", <<"on">>),
      Line("WaitTrigger", <<"check">>),
      Line("WaitObject", <<"web">>),
      Line("WaitObject", <<"nowhere">>),
      Line("WaitTimeout", <<"900">>),
      Line("Localtime", <<"90900">>),
      Line("Localtime", <<"0">>),
      Line("GET", <<"servicegroups">>) }

Init == lines \in SeqsUpTo(AllLines, MaxAllLines) /\ InitCore /\ InitQuery

Next ==
    \/ FilterLine
    \/ AndOrLine
    \/ NegateLine
    \/ StatsAndOrLine
    \/ StatsNegateLine
    \/ StatsLine
    \/ ColumnsLine
    \/ ColumnHeadersLine
    \/ LimitLine
    \/ TimelimitLine
    \/ AuthUserLine
    \/ SeparatorsLine
    \/ OutputFormatLine
    \/ ResponseHeaderLine
    \/ KeepAliveLine
    \/ WaitTriggerLine
    \/ WaitObjectLine
    \/ WaitTimeoutLine
    \/ LocaltimeLine
    \/ UndefinedHeaderLine
    \/ Finish

\* Requests over all headers.
Spec == Init /\ [][Next]_vars

----------------------------------------------------------------------------
(* Properties of the filter stacks *)

\* The step dispatches the current line, whose header is one of `headers`.
Dispatches(headers) ==
    /\ pc = "lines"
    /\ pos < Len(lines)
    /\ pos' = pos + 1
    /\ Cur.header \in headers

\* The number an And / Or line asks for.
Requested == nextNonNegativeIntegerArgument(Cur.args)

OnRowStack == Cur.header \in {"Filter", "And", "Or", "Negate"}

\* The stack the current line works on, before and after the step.
StackBefore == IF OnRowStack THEN filters ELSE wait_conditions

StackAfter == IF OnRowStack THEN filters' ELSE wait_conditions'

\* The step processes an And N / Or N line (row or wait stack) with at least
\* N filters on its stack.
CombineStep ==
    /\ Dispatches({"And", "Or", "WaitConditionAnd", "WaitConditionOr"})
    /\ Requested.error = NoError
    /\ Len(StackBefore) >= Requested.value

\* C1 - Stack discipline: an And N / Or N line (WaitConditionAnd N /
\* WaitConditionOr N on the wait stack) processed with at least N filters on
\* its stack leaves size - N + 1 filters, and every filter below the top N
\* is the same filter at the same position.
C1_StackDiscipline ==
    [][CombineStep =>
        LET below == Len(StackBefore) - Requested.value
        IN  /\ Len(StackAfter) = below + 1
            /\ SubSeq(StackAfter, 1, below) = SubSeq(StackBefore, 1, below)]_vars

\* An And: 2 has just combined the top two of at least three filters.
C1_Witness ==
    /\ pos >= 4
    /\ lines[pos] = [header |-> "And", args |-> <<"2">>]
    /\ Len(filters) >= 2
    /\ Last(filters).node = "and"
    /\ Len(Last(filters).subs) = 2

\* C2 - Order preservation: what a successful And N / Or N line pushes is
\* its connective applied to the N popped filters, earliest pushed first (on
\* the stack: bottom first).
C2_OrderPreservation ==
    [][CombineStep =>
        LET below == Len(StackBefore) - Requested.value
            children == SubSeq(StackBefore, below + 1, Len(StackBefore))
        IN  Last(StackAfter) =
                LogicalConnective(
                    IF Cur.header \in {"And", "WaitConditionAnd"} THEN "and" ELSE "or",
                    IF OnRowStack THEN "row" ELSE "wait_condition",
                    children)]_vars

\* An Or: 2 has combined name = foo (pushed first) and alias ~ bar.
C2_Witness ==
    /\ pos >= 3
    /\ lines[pos].header = "Or"
    /\ filters # <<>>
    /\ Last(filters).node = "or"
    /\ Len(Last(filters).subs) = 2
    /\ Last(filters).subs[1].column = "name"
    /\ Last(filters).subs[2].column = "alias"

\* C4 - Root construction: when the constructor has returned, the row filter
\* is the And of the row stack and the wait condition the And of the wait
\* stack, bottom first: no filter gives a root that accepts every row, one
\* filter gives that filter, more give an And node with the stack as children.
C4_RootConstruction ==
    pc = "done" =>
        /\ filters = <<>> => \A row \in Rows : accepts(filter, row)
        /\ Len(filters) = 1 => filter = filters[1]
        /\ Len(filters) >= 2 =>
               filter.node = "and" /\ filter.kind = "row" /\ filter.subs = filters
        /\ wait_conditions = <<>> => \A row \in Rows : accepts(wait_condition, row)
        /\ Len(wait_conditions) = 1 => wait_condition = wait_conditions[1]
        /\ Len(wait_conditions) >= 2 =>
               /\ wait_condition.node = "and"
               /\ wait_condition.kind = "wait_condition"
               /\ wait_condition.subs = wait_conditions

\* The constructor returned with two different filters left on the row stack,
\* one on the wait stack.
C4_Witness ==
    /\ pc = "done"
    /\ Len(filters) = 2
    /\ filters[1] # filters[2]
    /\ Len(wait_conditions) = 1

\* C7 - Underflow report: an And N / Or N line that finds M < N filters on
\* its stack records 'cannot combine filters' expecting N, but only M; a
\* Negate line without argument on an empty stack records expecting 1, but
\* only 0.
C7_UnderflowReport ==
    [][/\ ( /\ Dispatches({"And", "Or", "WaitConditionAnd", "WaitConditionOr"})
            /\ Requested.error = NoError
            /\ Len(StackBefore) < Requested.value )
          => output' = Append(output,
                 setError("bad_request", Cur.header,
                          stack_underflow(Requested.value, Len(StackBefore))))
       /\ ( /\ Dispatches({"Negate", "WaitConditionNegate"})
            /\ Cur.args = <<>>
            /\ StackBefore = <<>> )
          => output' = Append(output,
                 setError("bad_request", Cur.header, stack_underflow(1, 0)))]_vars

\* An And: 3 found two filters and reported expecting 3, but only 2.
C7_Witness ==
    /\ pos >= 3
    /\ lines[pos] = [header |-> "And", args |-> <<"3">>]
    /\ output # <<>>
    /\ Last(output).what = stack_underflow(3, 2)

----------------------------------------------------------------------------
(* Properties of the dispatch loop *)

\* The step appends to the output buffer the bad_request of the current line
\* and nothing else.
RecordsBadRequest ==
    /\ Len(output') = Len(output) + 1
    /\ SubSeq(output', 1, Len(output)) = output
    /\ Last(output').call = "setError"
    /\ Last(output').code = "bad_request"
    /\ Last(output').header = Cur.header

\* The name of the table a line of that shape asks for is not a column.
UnknownColumn ==
    \/ /\ Cur.header \in {"Filter", "WaitCondition"}
       /\ Len(Cur.args) >= 1
       /\ Cur.args[1] \notin Range(TableColumns)
    \/ /\ Cur.header = "Stats"
       /\ Len(Cur.args) >= 1
       /\ Cur.args[1] \notin stats_ops
       /\ Cur.args[1] \notin Range(TableColumns)
    \/ /\ Cur.header = "Stats"
       /\ Len(Cur.args) >= 2
       /\ Cur.args[1] \in stats_ops
       /\ Cur.args[2] \notin Range(TableColumns)

\* The current line is one of those that fail: an undefined (or wrongly
\* cased) header, an unknown column, a bad number, a stack underflow.
FailingLine ==
    \/ Cur.header \notin Headers
    \/ UnknownColumn
    \/ /\ Cur.header \in {"And", "Or", "WaitConditionAnd", "WaitConditionOr"}
       /\ \/ Requested.error # NoError
          \/ Len(StackBefore) < Requested.value
    \/ /\ Cur.header \in {"Negate", "WaitConditionNegate"}
       /\ StackBefore = <<>>

\* C3 - Per-line error capture: a failing line records a bad_request for its
\* header; whatever the line did, the loop goes on to the next line, one line
\* per iteration, and the constructor returns only after the last line, with
\* both filter roots set.
C3_ErrorCapture ==
    [][/\ (pc = "lines" /\ pos < Len(lines)) =>
              /\ pos' = pos + 1
              /\ pc' = "lines"
              /\ lines' = lines
              /\ FailingLine => RecordsBadRequest
       /\ pc' = "done" =>
              /\ pos = Len(lines)
              /\ pos' = pos
              /\ filter' # NoFilter
              /\ wait_condition' # NoFilter]_vars

\* A request whose first line has an undefined header, whose second line an
\* unknown column and whose third line pushed a filter, has been finished.
C3_Witness ==
    /\ pc = "done"
    /\ Len(lines) = 3
    /\ lines[1].header \notin Headers
    /\ lines[2] = [header |-> "Filter", args |-> <<"bogus", "=", "foo">>]
    /\ lines[3].header = "Filter"
    /\ Len(output) = 3
    /\ output[1].header = lines[1].header
    /\ output[2].header = "Filter"
    /\ filter = filters[1]

----------------------------------------------------------------------------
(* Properties of the output columns *)

\* The column the table has for a name: the registered one, else a NullColumn.
ColumnFor(name) ==
    [name |-> name, is_null |-> name \notin Range(TableColumns)]

\* C5 - Default columns: when the loop ends with no output column and no
\* stats column, the plan gets every column of the table in the order of
\* registration and show_column_headers = true.
C5_DefaultColumns ==
    [][(pc = "lines" /\ pc' = "done" /\ columns = <<>> /\ stats_columns = <<>>) =>
          /\ columns' = [i \in 1..Len(TableColumns) |->
                            [name |-> TableColumns[i], is_null |-> FALSE]]
          /\ show_column_headers' = TRUE]_vars

\* The defaults were filled in although the request had a Columns: line, a
\* Stats: line and, as its last word on the header row, ColumnHeaders: off.
C5_Witness ==
    /\ pc = "done"
    /\ Len(columns) = Len(TableColumns)
    /\ show_column_headers
    /\ Len(lines) = 3
    /\ \E i, j \in 1..3 :
          /\ lines[i].header \in {"Columns", "Stats"}
          /\ i < j
          /\ lines[j] = [header |-> "ColumnHeaders", args |-> <<"off">>]
          /\ \A k \in j + 1..3 : lines[k].header \notin {"ColumnHeaders"}

\* C6 - Null-column fallback: a Columns: line records no error and puts, for
\* every name the table does not know, a NullColumn of that name at the
\* name's position; a Filter:, Stats: or WaitCondition: line with an unknown
\* column records a bad_request and leaves its stack as it was.
C6_NullColumnFallback ==
    [][/\ Dispatches({"Columns"}) =>
              /\ output' = output
              /\ Len(columns') = Len(columns) + Len(Cur.args)
              /\ \A i \in 1..Len(Cur.args) :
                     Cur.args[i] \notin Range(TableColumns) =>
                         columns'[Len(columns) + i] =
                             [name |-> Cur.args[i], is_null |-> TRUE]
       /\ (Dispatches({"Filter", "Stats", "WaitCondition"}) /\ UnknownColumn) =>
              /\ RecordsBadRequest
              /\ UNCHANGED stacks]_vars

\* Columns: alias bogus gave a NullColumn for bogus and no error; a later
\* Filter: on bogus gave the only error of the request and pushed nothing.
C6_Witness ==
    /\ pos = 2
    /\ lines[1] = [header |-> "Columns", args |-> <<"alias", "bogus">>]
    /\ lines[2].header = "Filter"
    /\ columns = <<[name |-> "alias", is_null |-> FALSE],
                   [name |-> "bogus", is_null |-> TRUE]>>
    /\ Len(output) = 1
    /\ output[1].header = "Filter"
    /\ filters = <<>>

\* C10 as stated - after a Columns: line naming n1 ... nk (at least one name)
\* the output columns are exactly the columns for n1 ... nk, whatever earlier
\* lines had put.
C10_ColumnsReplace ==
    [][Dispatches({"Columns"}) /\ Cur.args # <<>> =>
          columns' = [i \in 1..Len(Cur.args) |-> ColumnFor(Cur.args[i])]]_vars

\* C10 as amended - a Columns: line naming n1 ... nk appends the columns for
\* n1 ... nk, in the listed order, to the output columns the earlier
\* Columns: lines of the request have put.
C10_ColumnsAppend ==
    [][Dispatches({"Columns"}) =>
          columns' = columns \o
                     [i \in 1..Len(Cur.args) |-> ColumnFor(Cur.args[i])]]_vars

\* Two Columns: lines of two names each have been processed.
C10_Witness ==
    /\ pos = 2
    /\ lines[1].header = "Columns"
    /\ lines[2].header = "Columns"
    /\ Len(lines[1].args) = 2
    /\ Len(lines[2].args) = 2
    /\ lines[1] # lines[2]
    /\ Len(columns) = 4

----------------------------------------------------------------------------
(* Properties of the stats columns *)

\* The filters of a sequence of Count columns.
FiltersOf(cols) == [i \in 1..Len(cols) |-> cols[i].filter]

\* C8 - Stats combination: a StatsAnd N / StatsOr N line that finds Count
\* columns as the last N stats columns replaces them by one Count column
\* whose filter is the And / Or, of kind stats, of their filters in push
\* order; the columns before keep their place and no error is recorded.  If
\* one of the columns the line would pop is an Op column, the line records a
\* bad_request.
C8_StatsCombination ==
    [][Dispatches({"StatsAnd", "StatsOr"}) /\ Requested.error = NoError =>
          LET n == Requested.value
              size == Len(stats_columns)
              reach == IF n < size THEN n ELSE size
              top == SubSeq(stats_columns, size - reach + 1, size)
          IN  /\ (n <= size /\ \A i \in 1..n : top[i].type = "count") =>
                     /\ Len(stats_columns') = size - n + 1
                     /\ SubSeq(stats_columns', 1, size - n) =
                            SubSeq(stats_columns, 1, size - n)
                     /\ Last(stats_columns').type = "count"
                     /\ Last(stats_columns').filter =
                            LogicalConnective(
                                IF Cur.header = "StatsAnd" THEN "and" ELSE "or",
                                "stats", FiltersOf(top))
                     /\ output' = output
              /\ (\E i \in 1..reach : top[i].type = "op") => RecordsBadRequest]_vars

\* StatsOr: 2 has combined warn > 0 (pushed first) and crit > 0 above an
\* earlier stats column.
C8_Witness ==
    /\ pos = 4
    /\ lines[4] = [header |-> "StatsOr", args |-> <<"2">>]
    /\ Len(stats_columns) = 2
    /\ stats_columns[1].type = "op"
    /\ stats_columns[2].filter.node = "or"
    /\ stats_columns[2].filter.subs[1].column = "num_services_warn"
    /\ stats_columns[2].filter.subs[2].column = "num_services_crit"

\* A Stats: line that parses: an aggregation and a column, or a column, an
\* operator and whatever follows.
WellFormedStats(l) ==
    /\ l.header = "Stats"
    /\ Len(l.args) >= 2
    /\ \/ l.args[1] \in stats_ops /\ l.args[2] \in Range(TableColumns)
       \/ /\ l.args[1] \notin stats_ops
          /\ l.args[1] \in Range(TableColumns)
          /\ l.args[2] \in DOMAIN negateRelationalOperator

\* C9 as stated - only the first Stats: line of a request switches
\* show_column_headers to false; a Stats: line after one that was parsed
\* leaves show_column_headers as it is.
C9_OnlyFirstStats ==
    [][/\ (Dispatches({"Stats"}) /\ WellFormedStats(Cur)
           /\ \A j \in 1..pos : ~WellFormedStats(lines[j]))
          => show_column_headers' = FALSE
       /\ (Dispatches({"Stats"})
           /\ \E j \in 1..pos : WellFormedStats(lines[j]))
          => show_column_headers' = show_column_headers]_vars

\* C9 as amended - every Stats: line that is parsed successfully sets
\* show_column_headers to false, the second and later ones like the first;
\* a Stats: line that fails leaves it as it is.
C9_EveryStats ==
    [][Dispatches({"Stats"}) =>
          IF WellFormedStats(Cur) THEN show_column_headers' = FALSE
          ELSE show_column_headers' = show_column_headers]_vars

\* A second Stats: line, after ColumnHeaders: on, has switched the headers
\* off again.
C9_Witness ==
    /\ pos = 3
    /\ WellFormedStats(lines[1])
    /\ lines[2] = [header |-> "ColumnHeaders", args |-> <<"on">>]
    /\ WellFormedStats(lines[3])
    /\ Len(stats_columns) = 2
    /\ ~show_column_headers

----------------------------------------------------------------------------
(* Properties of the argument checks *)

\* The number of arguments of the headers that take a fixed number of them.
\* (Filter:, Stats:, Columns:, AuthUser: and WaitObject: take the rest of the
\* line.)
Takes ==
    [h \in {"Negate", "StatsNegate", "WaitConditionNegate"} |-> 0] @@
    [h \in {"And", "Or", "StatsAnd", "StatsOr", "WaitConditionAnd",
            "WaitConditionOr", "ColumnHeaders", "Limit", "Timelimit",
            "OutputFormat", "ResponseHeader", "KeepAlive", "WaitTrigger",
            "WaitTimeout", "Localtime"} |-> 1] @@
    [h \in {"Separators"} |-> 4]

\* C11 - Superfluous arguments are rejected: a line that carries more
\* arguments than its header takes records a bad_request and has no effect
\* on the stacks, the output columns and the settings.
C11_SuperfluousRejected ==
    [][(Dispatches(DOMAIN Takes) /\ Len(Cur.args) > Takes[Cur.header]) =>
          /\ RecordsBadRequest
          /\ UNCHANGED <<stacks, outcols, settings>>]_vars

----------------------------------------------------------------------------
(* Properties of the settings *)

\* The multiples of 1800 seconds nearest to a difference of d seconds (two of
\* them when d lies half way).
NearestHalfHours(d) ==
    {m \in {k * 1800 : k \in -100..100} : 2 * Abs(m - d) <= 1800}

\* C12 - Localtime quantization: a Localtime: N line, the server clock
\* reading `now`, either stores a multiple of 1800 seconds that is nearest to
\* N - now and below 86400 seconds in absolute value, recording no error, or,
\* when N - now rounds to 24 hours or more in either direction, records a
\* bad_request and leaves timezone_offset as it was.
C12_LocaltimeQuantization ==
    [][(Dispatches({"Localtime"}) /\ Requested.error = NoError) =>
          \E now \in SystemClock :
              LET nearest == NearestHalfHours(Requested.value - now)
              IN  \/ /\ \A m \in nearest : Abs(m) < 86400
                     /\ output' = output
                     /\ timezone_offset' \in nearest
                     /\ timezone_offset' % 1800 = 0
                     /\ Abs(timezone_offset') < 86400
                  \/ /\ \E m \in nearest : Abs(m) >= 86400
                     /\ RecordsBadRequest
                     /\ timezone_offset' = timezone_offset]_vars

\* Localtime: 92700 stored an hour; the next line, a day ahead of the server,
\* failed and the hour is still there.
C12_Witness ==
    /\ pos = 2
    /\ lines[1] = [header |-> "Localtime", args |-> <<"92700">>]
    /\ lines[2] = [header |-> "Localtime", args |-> <<"176400">>]
    /\ timezone_offset = 3600
    /\ Len(output) = 1

----------------------------------------------------------------------------
(* Properties of the answerer *)

\* The rows of the groups the user is authorized for and the filter accepts,
\* in the order of the core's list.
RowsMatching ==
    LET matches(group) == isAuthorized(group, user) /\ accepts(filter, group.row)
        matching == SelectSeq(servicegroup_list, matches)
    IN  [i \in 1..Len(matching) |-> matching[i].row]

\* min(number of matching rows, limit)
Wanted ==
    IF limit.has /\ limit.value < Len(RowsMatching) THEN limit.value
    ELSE Len(RowsMatching)

IteratesInOrder ==
    /\ Len(calls) <= Len(servicegroup_list)
    /\ \A i \in 1..Len(calls) : calls[i].sg = i
    /\ \A i \in 1..Len(calls) - 1 : calls[i].result
    /\ pc = "answered" =>
           \/ calls # <<>> /\ ~Last(calls).result
           \/ Len(calls) = Len(servicegroup_list)

\* C18 - Answerer iteration: answerQuery offers the service groups to
\* processDataset one at a time in the order of the core's list, each at
\* most once, makes no call after the first that returns false, visits every
\* group when none returns false, and returns.
C18_AnswererIteration == []IteratesInOrder /\ <>(pc = "answered")

\* The second of three groups made processDataset return false and
\* answerQuery returned without a call for the third.
C18_Witness ==
    /\ pc = "answered"
    /\ Len(servicegroup_list) = 3
    /\ Len(calls) = 2
    /\ calls[1].result
    /\ ~calls[2].result

----------------------------------------------------------------------------
(* Properties of negation *)

\* The three stacks `s` as the line `l` leaves them.
StacksStep(s, l) ==
    LET h == l.header
        args == l.args
        connective == IF h \in {"And", "WaitConditionAnd", "StatsAnd"}
                      THEN "and" ELSE "or"
    IN  CASE h = "Filter" ->
               [s EXCEPT !.filters = parseFilterLine(args, @, {}).filters]
          [] h = "WaitCondition" ->
               [s EXCEPT !.wait_conditions = parseFilterLine(args, @, {}).filters]
          [] h \in {"And", "Or"} ->
               [s EXCEPT !.filters =
                    parseAndOrLine(args, "row", connective, @).filters]
          [] h \in {"WaitConditionAnd", "WaitConditionOr"} ->
               [s EXCEPT !.wait_conditions =
                    parseAndOrLine(args, "wait_condition", connective, @).filters]
          [] h = "Negate" ->
               [s EXCEPT !.filters = parseNegateLine(args, @).filters]
          [] h = "WaitConditionNegate" ->
               [s EXCEPT !.wait_conditions = parseNegateLine(args, @).filters]
          [] h = "Stats" ->
               [s EXCEPT !.stats_columns =
                    parseStatsLine(args, @, {}, TRUE).stats_columns]
          [] h \in {"StatsAnd", "StatsOr"} ->
               [s EXCEPT !.stats_columns =
                    parseStatsAndOrLine(args, connective, @).stats_columns]
          [] h = "StatsNegate" ->
               [s EXCEPT !.stats_columns = parseStatsNegateLine(args, @).stats_columns]
          [] OTHER -> s

\* The three stacks as the lines j + 1 .. k of the request leave them when
\* they start on empty stacks.
RECURSIVE StacksFrom(_, _)
StacksFrom(j, k) ==
    IF k <= j
    THEN [filters |-> <<>>, wait_conditions |-> <<>>, stats_columns |-> <<>>]
    ELSE StacksStep(StacksFrom(j, k - 1), lines[k])

\* The three stacks as the first k lines of the request leave them.
StacksAfter(k) == StacksFrom(0, k)

\* Two filters accept the same rows.
Equivalent(f, g) == \A row \in Rows : accepts(f, row) = accepts(g, row)

\* Two elements of a stack count the same: filters (or Count columns) that
\* accept the same rows, or the same Op column.
SameElement(header, a, b) ==
    IF header # "StatsNegate" THEN Equivalent(a, b)
    ELSE /\ a.type = b.type
         /\ IF a.type = "count" THEN Equivalent(a.filter, b.filter) ELSE a = b

\* C14 - Negation involution: right after two consecutive Negate: lines
\* (WaitConditionNegate: lines, StatsNegate: lines), neither with an
\* argument, the stack of the header has the size it had before them, the
\* same elements below the top and a top that accepts the rows the top
\* before them accepted.
C14_NegationInvolution ==
    \A h \in {"Negate", "WaitConditionNegate", "StatsNegate"} :
        (/\ pos >= 2
         /\ lines[pos - 1] = [header |-> h, args |-> <<>>]
         /\ lines[pos] = [header |-> h, args |-> <<>>]) =>
            LET was == StacksAfter(pos - 2)
                before == IF h = "Negate" THEN was.filters
                          ELSE IF h = "WaitConditionNegate" THEN was.wait_conditions
                          ELSE was.stats_columns
                after == IF h = "Negate" THEN filters
                         ELSE IF h = "WaitConditionNegate" THEN wait_conditions
                         ELSE stats_columns
            IN  /\ Len(after) = Len(before)
                /\ before # <<>> =>
                       /\ Front(after) = Front(before)
                       /\ SameElement(h, Last(after), Last(before))

\* Two Negate: lines after two Filter: lines: the negation of alias ~ bar has
\* been negated again, above name = foo.
C14_Witness ==
    /\ pos = 4
    /\ lines[1].header = "Filter"
    /\ lines[2] = [header |-> "Filter", args |-> <<"alias", "~", "bar">>]
    /\ lines[3] = [header |-> "Negate", args |-> <<>>]
    /\ lines[4] = [header |-> "Negate", args |-> <<>>]
    /\ Len(filters) = 2
    /\ output = <<>>

\* C16 - Negate line: a Negate: (WaitConditionNegate:) line without argument
\* on a non-empty stack replaces the top filter by its negation, which
\* accepts exactly the rows the top rejected, and leaves the size and the
\* filters below; with an argument, or on an empty stack, it records a
\* bad_request and leaves the stack as it was.
C16_NegateLine ==
    [][Dispatches({"Negate", "WaitConditionNegate"}) =>
          IF Cur.args = <<>> /\ StackBefore # <<>>
          THEN /\ Len(StackAfter) = Len(StackBefore)
               /\ Front(StackAfter) = Front(StackBefore)
               /\ Last(StackAfter) = negate(Last(StackBefore))
               /\ \A row \in Rows :
                      accepts(Last(StackAfter), row) = ~accepts(Last(StackBefore), row)
               /\ output' = output
          ELSE /\ StackAfter = StackBefore
               /\ RecordsBadRequest]_vars

\* A Negate: line with an argument has failed on a stack of two filters,
\* after one without argument had negated the top.
C16_Witness ==
    /\ pos = 4
    /\ lines[1].header = "Filter"
    /\ lines[2] = [header |-> "Filter", args |-> <<"alias", "~", "bar">>]
    /\ lines[3] = [header |-> "Negate", args |-> <<>>]
    /\ lines[4] = [header |-> "Negate", args |-> <<"x">>]
    /\ Len(filters) = 2
    /\ Last(filters).op = "!~"
    /\ Len(output) = 1

----------------------------------------------------------------------------
(* Properties of the identity elements *)

\* The only line of the request that works on the row stack is an 'Or: 0'.
OnlyOrZero ==
    \E i \in 1..Len(lines) :
        /\ lines[i] = [header |-> "Or", args |-> <<"0">>]
        /\ \A j \in 1..Len(lines) :
               j # i => lines[j].header \notin {"Filter", "And", "Or", "Negate"}

\* C15 - Identity elements: an 'And: 0' line (WaitConditionAnd: 0) pushes a
\* filter that accepts every row, an 'Or: 0' line one that accepts no row; an
\* 'And: 1' / 'Or: 1' line on a non-empty stack leaves the stack as it was,
\* the top filter unchanged; the root of a request whose only filter line is
\* 'Or: 0' accepts no row.
C15_IdentityElements ==
    [][/\ (CombineStep /\ Requested.value = 0) =>
              /\ Len(StackAfter) = Len(StackBefore) + 1
              /\ Front(StackAfter) = StackBefore
              /\ \A row \in Rows :
                     accepts(Last(StackAfter), row) =
                         (Cur.header \in {"And", "WaitConditionAnd"})
              /\ output' = output
       /\ (CombineStep /\ Requested.value = 1) =>
              /\ StackAfter = StackBefore
              /\ output' = output
       /\ (pc = "lines" /\ pc' = "done" /\ OnlyOrZero) =>
              \A row \in Rows : ~accepts(filter', row)]_vars

\* The request 'WaitCondition: name = foo', 'Or: 0' has been finished: the
\* row root is the empty Or.
C15_Witness ==
    /\ pc = "done"
    /\ Len(lines) = 2
    /\ lines[1].header = "WaitCondition"
    /\ lines[2] = [header |-> "Or", args |-> <<"0">>]
    /\ filter.node = "or"
    /\ filter.subs = <<>>
    /\ output[1].call = "setResponseHeader"

----------------------------------------------------------------------------
(* Properties of the kinds *)

\* C17 - Kind consistency: every filter on the wait stack is of kind
\* wait_condition, every filter on the row stack of kind row, the filter of
\* every Count column of kind stats, and the wait root the constructor
\* builds is not of kind row.
C17_KindConsistency ==
    /\ \A i \in 1..Len(wait_conditions) : wait_conditions[i].kind = "wait_condition"
    /\ \A i \in 1..Len(filters) : filters[i].kind = "row"
    /\ \A i \in 1..Len(stats_columns) :
           stats_columns[i].type = "count" => stats_columns[i].filter.kind = "stats"
    /\ pc = "done" => wait_condition.kind # "row"

----------------------------------------------------------------------------
(* Properties of the response header *)

\* The positions of the ResponseHeader: lines of the request whose value is
\* 'off' or 'fixed16'.
SuccessfulResponseHeaders ==
    {i \in 1..Len(lines) :
        /\ lines[i].header = "ResponseHeader"
        /\ lines[i].args # <<>>
        /\ lines[i].args[1] \in {"off", "fixed16"}}

\* The mode of the last of them, 'off' when there is none.
ModeAsked ==
    IF SuccessfulResponseHeaders = {} THEN "off"
    ELSE LET last == CHOOSE i \in SuccessfulResponseHeaders :
                         \A j \in SuccessfulResponseHeaders : j <= i
         IN  lines[last].args[1]

\* C19 - Response-header emission: while the lines are processed no
\* response-header mode is set on the output buffer; when the constructor
\* has returned it has set the mode once, as its last call on the buffer,
\* after every bad_request, and the mode is that of the last successful
\* ResponseHeader: line, 'off' without one.
C19_ResponseHeaderEmission ==
    /\ pc = "lines" =>
           \A i \in 1..Len(output) : output[i].call = "setError"
    /\ pc = "done" =>
           /\ output # <<>>
           /\ \A i \in 1..Len(output) - 1 : output[i].call = "setError"
           /\ Last(output).call = "setResponseHeader"
           /\ Last(output).mode = ModeAsked

\* 'ResponseHeader: fixed16', then a ResponseHeader: line that fails, then an
\* undefined header: two bad_requests, then the mode fixed16.
C19_Witness ==
    /\ pc = "done"
    /\ Len(lines) = 3
    /\ lines[1] = [header |-> "ResponseHeader", args |-> <<"fixed16">>]
    /\ lines[2] = [header |-> "ResponseHeader", args |-> <<"on">>]
    /\ lines[3].header \notin Headers
    /\ Len(output) = 3
    /\ output[3].mode = "fixed16"

----------------------------------------------------------------------------
(* Scenario (b) *)

\* The four header lines of the scenario have just been processed.
ScenarioBProcessed ==
    /\ pos = 4
    /\ SubSeq(lines, 1, 4) =
           << [header |-> "Filter", args |-> <<"name", "=", "foo">>],
              [header |-> "Filter", args |-> <<"alias", "~", "bar">>],
              [header |-> "Negate", args |-> <<>>],
              [header |-> "And", args |-> <<"2">>] >>

\* C20 as stated - after the four lines of scenario (b) the row-filter stack
\* is empty.
C20_StackEmpty == ScenarioBProcessed => filters = <<>>

\* C20 as amended - after the four lines of scenario (b) the row-filter
\* stack holds one filter, the And of name = foo and the negation of
\* alias ~ bar, in this order, and no error has been recorded.
C20_StackHoldsTheAnd ==
    ScenarioBProcessed =>
        /\ Len(filters) = 1
        /\ filters[1].node = "and"
        /\ filters[1].kind = "row"
        /\ filters[1].subs =
               << [node |-> "leaf", kind |-> "row", column |-> "name",
                   op |-> "=", rhs |-> <<"foo">>, subs |-> <<>>],
                  [node |-> "leaf", kind |-> "row", column |-> "alias",
                   op |-> "!~", rhs |-> <<"bar">>, subs |-> <<>>] >>
        /\ \A i \in 1..Len(output) : output[i].call # "setError"

\* The constructor has returned from the request of scenario (b): the root
\* is the filter that was left on the stack.
C20_Witness ==
    /\ ScenarioBProcessed
    /\ pc = "done"
    /\ Len(lines) = 4
    /\ filter = filters[1]
    /\ \A row \in Rows :
           accepts(filter, row) =
               (row["name"] = "foo" /\ <<row["alias"], "bar">> \notin Found)

----------------------------------------------------------------------------
(* Properties of the underflow *)

\* The step processes an And N / Or N line (row or wait stack) that finds
\* fewer than N filters on its stack.
UnderflowStep ==
    /\ Dispatches({"And", "Or", "WaitConditionAnd", "WaitConditionOr"})
    /\ Requested.error = NoError
    /\ Len(StackBefore) < Requested.value

\* Line k of the request is an And N / Or N line of the row stack (of the
\* wait stack when ~row) that found fewer than N filters.
UnderflowAt(k, row) ==
    LET number == nextNonNegativeIntegerArgument(lines[k].args)
        was == StacksAfter(k - 1)
    IN  /\ lines[k].header \in (IF row THEN {"And", "Or"}
                                ELSE {"WaitConditionAnd", "WaitConditionOr"})
        /\ number.error = NoError
        /\ Len(IF row THEN was.filters ELSE was.wait_conditions) < number.value

\* C21 - Underflow consumes the stack: an And N / Or N / WaitConditionAnd N
\* / WaitConditionOr N line that finds fewer than N filters on its stack
\* leaves that stack empty and the other stacks as they were; the root the
\* constructor builds for that stack is the And of what the lines after the
\* failed one leave on an empty stack, and accepts every row when they
\* leave nothing.
C21_UnderflowConsumes ==
    [][/\ UnderflowStep =>
              /\ StackAfter = <<>>
              /\ IF OnRowStack THEN wait_conditions' = wait_conditions
                 ELSE filters' = filters
              /\ stats_columns' = stats_columns
              /\ RecordsBadRequest
       /\ (pc = "lines" /\ pc' = "done") =>
              \A k \in 1..Len(lines) :
                  LET later == StacksFrom(k, Len(lines))
                  IN  /\ UnderflowAt(k, TRUE) =>
                             /\ filter' = AndingFilter_make("row", later.filters)
                             /\ later.filters = <<>> =>
                                    \A row \in Rows : accepts(filter', row)
                      /\ UnderflowAt(k, FALSE) =>
                             /\ wait_condition' =
                                    AndingFilter_make("wait_condition",
                                                      later.wait_conditions)
                             /\ later.wait_conditions = <<>> =>
                                    \A row \in Rows : accepts(wait_condition', row)]_vars

\* Two Filter: lines, an And: 3 that found only the two, then one more
\* Filter: line: the root is the filter of the last line alone.
C21_Witness ==
    /\ pc = "done"
    /\ Len(lines) = 4
    /\ lines[1] = [header |-> "Filter", args |-> <<"name", "=", "foo">>]
    /\ lines[2].header = "Filter"
    /\ lines[3] = [header |-> "And", args |-> <<"3">>]
    /\ lines[4] = [header |-> "Filter", args |-> <<"alias", "~", "bar">>]
    /\ filters = <<filter>>
    /\ filter.column = "alias"
    /\ Len(output) = 2

----------------------------------------------------------------------------
(* Properties of the header row *)

\* Line i is a ColumnHeaders: on line and no Columns: line and no Stats:
\* line that parses comes after it.
HeadersOnAfterAll(i) ==
    /\ lines[i].header = "ColumnHeaders"
    /\ lines[i].args # <<>>
    /\ lines[i].args[1] = "on"
    /\ \A j \in i + 1..Len(lines) :
           /\ lines[j].header # "Columns"
           /\ ~WellFormedStats(lines[j])

\* C22 - The header-row flag is order-dependent: every Columns: line and
\* every Stats: line that parses sets show_column_headers to false; when the
\* loop ends with output columns or stats columns, show_column_headers is
\* true in the plan only if the request has a ColumnHeaders: on line after
\* its last Columns: line and its last successful Stats: line.
C22_HeaderFlagOrder ==
    [][/\ Dispatches({"Columns"}) => show_column_headers' = FALSE
       /\ (Dispatches({"Stats"}) /\ WellFormedStats(Cur)) =>
              show_column_headers' = FALSE
       /\ ( /\ pc = "lines"
            /\ pc' = "done"
            /\ columns # <<>> \/ stats_columns # <<>>
            /\ show_column_headers' ) =>
              \E i \in 1..Len(lines) : HeadersOnAfterAll(i)]_vars

----------------------------------------------------------------------------
(* Properties of the setting lines *)

SettingHeaders ==
    { "Limit", "Timelimit", "WaitTimeout", "KeepAlive", "ResponseHeader",
      "OutputFormat", "Separators", "Localtime" }

\* The token is the decimal form of a non-negative int.
IsNumber(token) == nextNonNegativeIntegerArgument(<<token>>).error = NoError

NumberOf(token) == nextNonNegativeIntegerArgument(<<token>>).value

\* The line names a value its header takes.  (Whether a Localtime: line
\* succeeds depends on the clock: OffsetsOf.)
NamesValue(l) ==
    CASE l.header \in {"Limit", "Timelimit", "WaitTimeout"} ->
             l.args # <<>> /\ IsNumber(l.args[1])
      [] l.header = "KeepAlive" -> l.args # <<>> /\ l.args[1] \in {"on", "off"}
      [] l.header = "ResponseHeader" ->
             l.args # <<>> /\ l.args[1] \in {"off", "fixed16"}
      [] l.header = "OutputFormat" ->
             l.args # <<>> /\ l.args[1] \in {"CSV", "csv", "json", "python", "python3"}
      [] l.header = "Separators" ->
             Len(l.args) >= 4 /\ \A i \in 1..4 : IsNumber(l.args[i])
      [] OTHER -> FALSE

\* The last of the lines processed so far that has this header and names a
\* value for it, 0 when there is none.
LastNaming(header) ==
    LET naming == {i \in 1..pos : lines[i].header = header /\ NamesValue(lines[i])}
    IN  IF naming = {} THEN 0
        ELSE CHOOSE i \in naming : \A j \in naming : j <= i

\* The offsets a Localtime: line can set, one for each reading of the clock
\* that leaves it below 24 hours.
OffsetsOf(l) ==
    IF l.args = <<>> \/ ~IsNumber(l.args[1]) THEN {}
    ELSE {o \in {RoundTo(NumberOf(l.args[1]) - now, 1800) * 1800 : now \in SystemClock} :
             Abs(o) < 24 * 3600}

\* The Localtime: line succeeds whatever the clock reads.
AlwaysSets(l) ==
    /\ l.header = "Localtime"
    /\ l.args # <<>>
    /\ IsNumber(l.args[1])
    /\ \A now \in SystemClock :
           Abs(RoundTo(NumberOf(l.args[1]) - now, 1800) * 1800) < 24 * 3600

\* The offsets the last successful Localtime: line processed so far can have
\* set, 0 when none may have succeeded.
OffsetsAsked ==
    (IF \E i \in 1..pos : AlwaysSets(lines[i]) THEN {} ELSE {0})
    \cup UNION { OffsetsOf(lines[i]) :
                 i \in {k \in 1..pos :
                           /\ lines[k].header = "Localtime"
                           /\ \A j \in k + 1..pos : ~AlwaysSets(lines[j])} }

\* Every field of a setting header has the value of the last line processed
\* so far that succeeded for it, its initial value when there is none.
LastSuccessWins ==
    /\ limit = IF LastNaming("Limit") = 0 THEN [has |-> FALSE, value |-> 0]
               ELSE [has |-> TRUE,
                     value |-> NumberOf(lines[LastNaming("Limit")].args[1])]
    /\ wait_timeout =
           IF LastNaming("WaitTimeout") = 0 THEN [has |-> FALSE, value |-> 0]
           ELSE [has |-> TRUE,
                 value |-> NumberOf(lines[LastNaming("WaitTimeout")].args[1])]
    /\ IF LastNaming("Timelimit") = 0 THEN ~time_limit.has
       ELSE /\ time_limit.has
            /\ time_limit.duration = NumberOf(lines[LastNaming("Timelimit")].args[1])
            /\ time_limit.deadline - time_limit.duration \in SteadyClock
    /\ keepalive = IF LastNaming("KeepAlive") = 0 THEN FALSE
                   ELSE lines[LastNaming("KeepAlive")].args[1] = "on"
    /\ response_header =
           IF LastNaming("ResponseHeader") = 0 THEN "off"
           ELSE lines[LastNaming("ResponseHeader")].args[1]
    /\ output_format =
           IF LastNaming("OutputFormat") = 0 THEN "broken_csv"
           ELSE formats[lines[LastNaming("OutputFormat")].args[1]]
    /\ separators =
           IF LastNaming("Separators") = 0 THEN <<10, 59, 44, 124>>
           ELSE [i \in 1..4 |->
                    NumberOf(lines[LastNaming("Separators")].args[i]) % 256]
    /\ timezone_offset \in OffsetsAsked

\* C23 - Failed setting lines change nothing: a Limit:, Timelimit:,
\* WaitTimeout:, KeepAlive:, ResponseHeader:, OutputFormat:, Separators: or
\* Localtime: line that fails, and a line with an undefined header, records
\* a bad_request and leaves every field of the plan and the three stacks as
\* they were; a Separators: line changes all four separators or none; and
\* every field has the value of the last line that succeeded for it.
C23_FailedSettingsKeep ==
    /\ []LastSuccessWins
    /\ [][/\ ( /\ pc = "lines"
               /\ pos < Len(lines)
               /\ pos' = pos + 1
               /\ \/ Cur.header \notin Headers
                  \/ Cur.header \in SettingHeaders \ {"Localtime"} /\ ~NamesValue(Cur)
                  \/ Cur.header = "Localtime" /\ output' # output ) =>
                 /\ RecordsBadRequest
                 /\ UNCHANGED <<stacks, outcols, settings, roots>>
          /\ Dispatches({"Separators"}) =>
                 \/ separators' = separators
                 \/ /\ output' = output
                    /\ \A i \in 1..4 : separators'[i] = NumberOf(Cur.args[i]) % 256]_vars

\* 'Separators: 0 1 2 3', then 'Separators: 4 5 300 x', which fails at its
\* fourth number: one bad_request, and the separators of the first line.
C23_Witness ==
    /\ pc = "done"
    /\ lines = << [header |-> "Separators", args |-> <<"0", "1", "2", "3">>],
                  [header |-> "Separators", args |-> <<"4", "5", "300", "x">>] >>
    /\ separators = <<0, 1, 2, 3>>
    /\ Len(output) = 2
    /\ output[1].call = "setError"
    /\ output[1].header = "Separators"

----------------------------------------------------------------------------
(* Properties of the wait object *)

\* The core has a service group whose name is the primary key of the line.
Resolves(l) ==
    /\ Len(l.args) = 1
    /\ \E i \in 1..Len(servicegroup_list) :
           servicegroup_list[i].row["name"] = l.args[1]

\* The WaitObject: lines processed so far.
WaitObjectLines == {i \in 1..pos : lines[i].header = "WaitObject"}

\* wait_object is set exactly when there has been a WaitObject: line and the
\* last of them resolved, and then it is the group that line names.
LastWaitObjectDecides ==
    IF \E i \in WaitObjectLines :
           /\ \A j \in WaitObjectLines : j <= i
           /\ Resolves(lines[i])
    THEN \E i \in WaitObjectLines :
             /\ \A j \in WaitObjectLines : j <= i
             /\ wait_object = lines[i].args[1]
             /\ wait_object # ""
    ELSE wait_object = ""

\* C24 - A WaitObject: failure resets the wait object: a WaitObject: line
\* whose primary key the table cannot resolve records a bad_request and
\* leaves wait_object null, also when an earlier WaitObject: line had
\* resolved; a line that resolves sets it without error; so wait_object is
\* non-null exactly when the last WaitObject: line of the request resolved.
C24_WaitObjectReset ==
    /\ []LastWaitObjectDecides
    /\ [][Dispatches({"WaitObject"}) =>
              IF Resolves(Cur)
              THEN /\ wait_object' = Cur.args[1]
                   /\ output' = output
              ELSE /\ wait_object' = ""
                   /\ RecordsBadRequest]_vars

\* 'WaitObject: web' resolved, then 'WaitObject: nowhere' did not: one
\* bad_request, and the plan has no wait object.
C24_Witness ==
    /\ pc = "done"
    /\ Len(lines) = 3
    /\ lines[1] = [header |-> "WaitObject", args |-> <<"web">>]
    /\ lines[2].header # "WaitObject"
    /\ lines[3] = [header |-> "WaitObject", args |-> <<"nowhere">>]
    /\ Len(servicegroup_list) = 2
    /\ wait_object = ""
    /\ \E i \in 1..Len(output) :
           output[i].call = "setError" /\ output[i].header = "WaitObject"

====
